---------------------------- MODULE Spec2Model ----------------------------
(***************************************************************************)
(* Model of the NAF Solution Wizard (src/naf_naf_solution_wizard.py): the  *)
(* business-day scheduling engine of "Staffing, Timeline, & Milestones",   *)
(* the text helpers, content detection and export gating, import and       *)
(* reset; and of the Automation Use Cases page.                            *)
(*                                                                         *)
(* Dates are Python datetime.date values, represented by their proleptic   *)
(* Gregorian ordinal (date.toordinal()): ordinal 1 is 0001-01-01, a        *)
(* Monday.  A date formatted with strftime("%Y-%m-%d") is the tuple        *)
(* <<year, month, day>> of its fields.  Python's None is the empty tuple   *)
(* and an optional value v that is present is the one-element tuple <<v>>. *)
(*                                                                         *)
(* The specifications:                                                     *)
(*   SpecAdd   one call of _add_business_days(d, n, holiday_set), its      *)
(*             while loop run one iteration per step;                      *)
(*   Spec      one pass of the "Build schedule" code over the milestone    *)
(*             rows of the session, one row per step, followed by the      *)
(*             construction of payload["timeline"];                        *)
(*   SpecRerun Spec followed by a second script run on the same inputs;    *)
(*   SpecHol   one call of _build_holiday_set;                             *)
(*   SpecYears the schedule build with the holiday set _build_holiday_set  *)
(*             yields, over chains of several years;                       *)
(*   SpecTotal SpecAdd and Spec under weak fairness (termination);         *)
(*   SpecUtil  join_human, md_line and is_meaningful;                      *)
(*   SpecRows  the milestone rows of one run: add, render, delete;         *)
(*   SpecUseCases  runs of the Automation Use Cases page;                  *)
(*   SpecGate  content detection, the highlights summary and the sidebar   *)
(*             export gate of one run;                                     *)
(*   SpecImport  export of the selections and "Apply uploaded JSON" in     *)
(*             Overwrite mode;                                             *)
(*   SpecReset the "Reset to defaults" button.                             *)
(***************************************************************************)
EXTENDS Integers, Sequences, FiniteSets, TLC

VARIABLES
    \* ---- one call of _add_business_days (SpecAdd) ----
    abd_d,            \* argument d
    abd_n,            \* argument n
    abd_holiday_set,  \* argument holiday_set: None or <<set of dates>>
    abd_cur,          \* local cur
    abd_days,         \* local days
    abd_pc,           \* "idle" | "loop" | "returned"
    \* ---- the schedule build of one script run (Spec) ----
    start_date,           \* the "Project start date" input
    holiday_set,          \* the set built by _build_holiday_set
    timeline_milestones,  \* st.session_state["timeline_milestones"]
    row_i,                \* index of the row the for loop takes next
    schedule,             \* local schedule
    cursor,               \* local cursor
    total_bd,             \* local total_bd
    timeline,             \* payload["timeline"]: None until built, then <<record>>
    pc,                   \* "idle" | "build" | "adding" | "done"
    \* ---- a second script run (SpecRerun) ----
    first_timeline,       \* payload["timeline"] of the first run, None during it
    \* ---- one call of _build_holiday_set (SpecHol, SpecYears) ----
    hol_lib,          \* _hol is not None: the holidays library was imported
    holiday_region,   \* the "Holiday calendar" selection
    hol_provider_ok,  \* FALSE: constructing the region's calendar raises
    hol_calendar,     \* the public holidays the library knows for the region
    hol_start_year,   \* argument start_year
    hol_years_ahead,  \* argument years_ahead
    hol_result,       \* None, or <<[raised, years, value]>> once the call ended
    hol_pc,           \* "idle" | "call" | "returned" | "raised"
    \* ---- join_human, md_line, is_meaningful (SpecUtil) ----
    util_items,       \* argument items of join_human: None or <<list>>
    util_joined,      \* None, or <<the string join_human returned>>
    util_text,        \* argument text of md_line / is_meaningful: None or <<string>>
    util_meaningful,  \* result of is_meaningful(text)
    util_md,          \* None, or <<the string md_line returned>>
    util_pc,          \* "idle" | "join" | "sentence" | "check" | "done"
    \* ---- the milestone rows of one script run (SpecRows) ----
    rows_list,        \* st.session_state["timeline_milestones"]
    rows_n,           \* length of the copy the render loop iterates over
    rows_idx,         \* idx of the row the render loop takes next
    rows_edited,      \* the rows as the widgets returned them in this run
    rows_to_delete,   \* local to_delete
    rows_k,           \* number of entries of sorted(to_delete) already popped
    rows_pc,          \* "idle" | "controls" | "render" | "done"
    \* ---- the Automation Use Cases page (SpecUseCases) ----
    uc_list,          \* st.session_state["use_cases"]: None while absent
    uc_index,         \* st.session_state["use_case_active_index"]: None or <<int>>
    uc_button,        \* the button pressed in this run: "none" | "add" | "delete"
    uc_before,        \* use_cases and the active index when the run started
    uc_pc,            \* "idle" | "start" | "controls" | "select" | "edit" | "end"
    \* ---- content detection and export gating of one run (SpecGate) ----
    gate_in,          \* what the widgets of the run returned
    gate_out,         \* None, or <<what the run displayed and offered>>
    gate_pc,          \* "idle" | "inputs" | "done"
    \* ---- st.session_state over runs (SpecImport, SpecReset) ----
    session,          \* st.session_state: a function from keys to values
    sess_exported,    \* None, or <<the selections of the exported payload>>
    sess_pc           \* "idle" | "edit" | "exported" | "applied" | "reset"

abdVars == <<abd_d, abd_n, abd_holiday_set, abd_cur, abd_days, abd_pc>>
schedVars == <<start_date, holiday_set, timeline_milestones, row_i, schedule,
               cursor, total_bd, timeline, pc>>
rerunVars == <<first_timeline>>
holVars == <<hol_lib, holiday_region, hol_provider_ok, hol_calendar,
             hol_start_year, hol_years_ahead, hol_result, hol_pc>>
utilVars == <<util_items, util_joined, util_text, util_meaningful, util_md,
              util_pc>>
rowsVars == <<rows_list, rows_n, rows_idx, rows_edited, rows_to_delete, rows_k,
              rows_pc>>
ucVars == <<uc_list, uc_index, uc_button, uc_before, uc_pc>>
gateVars == <<gate_in, gate_out, gate_pc>>
sessVars == <<session, sess_exported, sess_pc>>
wizVars == <<gateVars, sessVars>>
uiVars == <<rowsVars, ucVars, wizVars>>
coreVars == <<abdVars, schedVars, rerunVars, holVars, utilVars>>
vars == <<abdVars, schedVars, rerunVars, holVars, utilVars, uiVars>>

None == <<>>
Some(v) == <<v>>

-----------------------------------------------------------------------------
(* Bounds of the model.                                                    *)

\* Number of consecutive calendar days the start date / d is drawn from.
WindowDays == 5
\* Largest n passed to _add_business_days in SpecAdd.
MaxN == 3
\* Largest number of milestone rows in the session.
MaxRows == 3

-----------------------------------------------------------------------------
(* datetime.date arithmetic.                                               *)

Max(a, b) == IF a >= b THEN a ELSE b

IsLeap(y) == y % 4 = 0 /\ (y % 100 # 0 \/ y % 400 = 0)

DaysInMonth(y, m) ==
    IF m = 2 THEN (IF IsLeap(y) THEN 29 ELSE 28)
    ELSE IF m \in {4, 6, 9, 11} THEN 30 ELSE 31

DaysBeforeYear(y) ==
    LET p == y - 1 IN p * 365 + (p \div 4) - (p \div 100) + (p \div 400)

RECURSIVE DaysBeforeMonth(_, _)
DaysBeforeMonth(y, m) ==
    IF m <= 1 THEN 0 ELSE DaysBeforeMonth(y, m - 1) + DaysInMonth(y, m - 1)

\* datetime.date(y, m, d) as an ordinal.
Date(y, m, d) == DaysBeforeYear(y) + DaysBeforeMonth(y, m) + d

\* date.weekday(): Monday is 0 and Sunday is 6.
Weekday(d) == (d + 6) % 7

\* The year of the date with ordinal n (date.year).
RECURSIVE YearFrom(_, _)
YearFrom(n, y) == IF n > DaysBeforeYear(y + 1) THEN YearFrom(n, y + 1) ELSE y

Year(n) == YearFrom(n, (n - 1) \div 366 + 1)

RECURSIVE MonthFrom(_, _, _)
MonthFrom(n, y, m) ==
    IF m < 12 /\ n > DaysBeforeYear(y) + DaysBeforeMonth(y, m + 1)
    THEN MonthFrom(n, y, m + 1) ELSE m

\* date.strftime("%Y-%m-%d"): the fields <<year, month, day>> of the date.
Strftime(n) ==
    LET y == Year(n)
        m == MonthFrom(n, y, 1)
    IN  <<y, m, n - DaysBeforeYear(y) - DaysBeforeMonth(y, m)>>

-----------------------------------------------------------------------------
(* str.strip().                                                            *)

Whitespace == {" ", "\t", "\n"}

RECURSIVE LStrip(_)
LStrip(s) == IF Len(s) > 0 /\ Head(s) \in Whitespace THEN LStrip(Tail(s)) ELSE s

RECURSIVE RStrip(_)
RStrip(s) ==
    IF Len(s) > 0 /\ SubSeq(s, Len(s), Len(s)) \in Whitespace
    THEN RStrip(SubSeq(s, 1, Len(s) - 1)) ELSE s

Strip(s) == RStrip(LStrip(s))

-----------------------------------------------------------------------------
(* _add_business_days(d, n, holiday_set=None).                             *)

\* The while condition: days > 0.
AbdContinueOffByOne(days) == days >= 0
AbdContinue(days) == days > 0

\* The if condition of the loop body: cur is a weekday (Mon=0 .. Sun=6) and
\* holiday_set is None or does not contain cur.
CountsWeekdaysOnly(cur, hs) == Weekday(cur) < 5
CountsSaturday(cur, hs) == Weekday(cur) <= 5 /\ (hs = None \/ cur \notin hs[1])
CountsAsBusinessDay(cur, hs) == Weekday(cur) < 5 /\ (hs = None \/ cur \notin hs[1])

\* One iteration of the while body, from the locals <<cur, days>>.
AbdBodyStallsOnSkippedDay(cur, days, hs) ==
    IF CountsAsBusinessDay(cur + 1, hs) THEN <<cur + 1, days - 1>> ELSE <<cur, days>>
AbdBodyTestsBeforeStep(cur, days, hs) ==
    <<cur + 1, IF CountsAsBusinessDay(cur, hs) THEN days - 1 ELSE days>>
AbdBody(cur, days, hs) ==
    LET nxt == cur + 1
    IN  <<nxt, IF CountsAsBusinessDay(nxt, hs) THEN days - 1 ELSE days>>

RECURSIVE AbdLoop(_, _, _)
AbdLoop(cur, days, hs) ==
    IF AbdContinue(days)
    THEN LET b == AbdBody(cur, days, hs) IN AbdLoop(b[1], b[2], hs)
    ELSE cur

\* The whole call: days = int(n or 0); cur = d; the loop; return cur.
_add_business_days(d, n, hs) == AbdLoop(d, n, hs)

\* ---- SpecAdd: the call run one loop iteration per step ----

FirstDate == Date(2025, 1, 3)  \* a Friday
AbdDates == FirstDate .. (FirstDate + WindowDays - 1)
AbdNs == (0 - 1) .. MaxN
\* Candidate holidays of SpecAdd: Sat 4, Mon 6, Tue 7, Wed 8, Fri 10 Jan 2025.
AbdHolidayPool ==
    {Date(2025, 1, 4), Date(2025, 1, 6), Date(2025, 1, 7), Date(2025, 1, 8),
     Date(2025, 1, 10)}
AbdHolidaySets == {None} \cup {Some(H) : H \in SUBSET AbdHolidayPool}

RerunIdle == first_timeline = None

HolIdle ==
    /\ hol_lib = FALSE
    /\ holiday_region = "None"
    /\ hol_provider_ok = TRUE
    /\ hol_calendar = {}
    /\ hol_start_year = 0
    /\ hol_years_ahead = 0
    /\ hol_result = None
    /\ hol_pc = "idle"

RowsIdle ==
    /\ rows_list = <<>>
    /\ rows_n = 0
    /\ rows_idx = 0
    /\ rows_edited = <<>>
    /\ rows_to_delete = <<>>
    /\ rows_k = 0
    /\ rows_pc = "idle"

UcIdle ==
    /\ uc_list = None
    /\ uc_index = None
    /\ uc_button = "none"
    /\ uc_before = None
    /\ uc_pc = "idle"

GateIdle ==
    /\ gate_in = None
    /\ gate_out = None
    /\ gate_pc = "idle"

SessIdle ==
    /\ session = <<>>
    /\ sess_exported = None
    /\ sess_pc = "idle"

WizIdle == GateIdle /\ SessIdle

UiIdle == RowsIdle /\ UcIdle /\ WizIdle

UtilIdle ==
    /\ util_items = None
    /\ util_joined = None
    /\ util_text = None
    /\ util_meaningful = FALSE
    /\ util_md = None
    /\ util_pc = "idle"

SchedIdle ==
    /\ start_date = 0
    /\ holiday_set = {}
    /\ timeline_milestones = <<>>
    /\ row_i = 0
    /\ schedule = <<>>
    /\ cursor = 0
    /\ total_bd = 0
    /\ timeline = None
    /\ pc = "idle"

AbdInit ==
    /\ abd_d \in AbdDates
    /\ abd_n \in AbdNs
    /\ abd_holiday_set \in AbdHolidaySets
    /\ abd_days = abd_n
    /\ abd_cur = abd_d
    /\ abd_pc = "loop"
    /\ SchedIdle /\ RerunIdle /\ HolIdle /\ UtilIdle /\ UiIdle

AbdStep ==
    /\ abd_pc = "loop"
    /\ AbdContinue(abd_days)
    /\ LET b == AbdBody(abd_cur, abd_days, abd_holiday_set)
       IN  abd_cur' = b[1] /\ abd_days' = b[2]
    /\ UNCHANGED <<abd_d, abd_n, abd_holiday_set, abd_pc, schedVars, rerunVars, holVars, utilVars, uiVars>>

AbdReturn ==
    /\ abd_pc = "loop"
    /\ ~AbdContinue(abd_days)
    /\ abd_pc' = "returned"
    /\ UNCHANGED <<abd_d, abd_n, abd_holiday_set, abd_cur, abd_days, schedVars, rerunVars, holVars, utilVars, uiVars>>

AbdNext == AbdStep \/ AbdReturn

SpecAdd == AbdInit /\ [][AbdNext]_vars

-----------------------------------------------------------------------------
(* The "Build schedule" loop and payload["timeline"].                      *)

\* name = (row.get("name") or "").strip()
RowName(row) == Strip(row.name)
\* dur = int(row.get("duration") or 0)
RowDur(row) == row.duration
\* notes = row.get("notes") or ""
RowNotes(row) == row.notes

\* if not name and dur <= 0: continue
RowFilteredEither(row) == RowName(row) = "" \/ RowDur(row) <= 0
RowFiltered(row) == RowName(row) = "" /\ RowDur(row) <= 0

\* end = _add_business_days(start, dur, holiday_set) if dur > 0 else start
ItemEndAtLeastOneDay(start, dur, hs) == _add_business_days(start, Max(1, dur), Some(hs))
ItemEnd(start, dur, hs) ==
    IF dur > 0 THEN _add_business_days(start, dur, Some(hs)) ELSE start

\* The dict appended to schedule for a kept row, with start = cursor.
ScheduleItemKeepsEmptyName(row, cur, hs) ==
    [name |-> RowName(row),
     duration_bd |-> RowDur(row),
     start |-> cur,
     end |-> ItemEnd(cur, RowDur(row), hs),
     notes |-> RowNotes(row)]
ScheduleItem(row, cur, hs) ==
    [name |-> IF RowName(row) # "" THEN RowName(row) ELSE "(Unnamed)",
     duration_bd |-> RowDur(row),
     start |-> cur,
     end |-> ItemEnd(cur, RowDur(row), hs),
     notes |-> RowNotes(row)]

\* cursor = end
NextCursorDayAfter(item) == item.end + 1
NextCursor(item) == item.end

\* total_bd += max(0, dur)
TotalIncrementCalendarSpan(item) == item.end - item.start
TotalIncrement(item) == Max(0, item.duration_bd)

\* "projected_completion": schedule[-1]["end"].strftime(...) if schedule else None
ProjectedCompletion(sched) ==
    IF sched # <<>> THEN Strftime(sched[Len(sched)].end) ELSE None

\* The scheduler's part of payload["timeline"].
TimelinePayloadCursorCompletion(sd, tbd, sched) ==
    [start_date |-> Strftime(sd),
     total_business_days |-> tbd,
     projected_completion |->
        IF sched # <<>> THEN Strftime(sched[Len(sched)].end) ELSE Strftime(sd),
     items |-> [i \in 1 .. Len(sched) |->
                  [name |-> sched[i].name,
                   duration_bd |-> sched[i].duration_bd,
                   start |-> Strftime(sched[i].start),
                   end |-> Strftime(sched[i].end),
                   notes |-> sched[i].notes]]]
TimelinePayload(sd, tbd, sched) ==
    [start_date |-> Strftime(sd),
     total_business_days |-> tbd,
     projected_completion |-> ProjectedCompletion(sched),
     items |-> [i \in 1 .. Len(sched) |->
                  [name |-> sched[i].name,
                   duration_bd |-> sched[i].duration_bd,
                   start |-> Strftime(sched[i].start),
                   end |-> Strftime(sched[i].end),
                   notes |-> sched[i].notes]]]

\* ---- Spec: the inputs of one run ----

StartDates == FirstDate .. (FirstDate + WindowDays - 1)
\* Candidate holidays: Tue 7 Jan and Mon 20 Jan 2025.
HolidayPool == {Date(2025, 1, 7), Date(2025, 1, 20)}
\* Rows a session can hold: three of the default rows, the row "Add milestone
\* row" appends, and rows as edited (blank names, zero durations).  The two
\* rows of negative duration exercise the loop's "dur <= 0" and "max(0, dur)"
\* guards; the number_input of the form (min_value=0) does not produce them.
RowPool ==
    {[name |-> "Planning", duration |-> 5, notes |-> ""],
     [name |-> "Design", duration |-> 10, notes |-> ""],
     [name |-> "Build", duration |-> 10, notes |-> ""],
     [name |-> "", duration |-> 0, notes |-> ""],
     [name |-> "  ", duration |-> 2, notes |-> "tbc"],
     [name |-> " Review ", duration |-> 0, notes |-> "gate"],
     [name |-> "Cutover", duration |-> 0 - 2, notes |-> "neg"],
     [name |-> " ", duration |-> 0 - 1, notes |-> "blank"]}
MilestoneLists == UNION {[1 .. n -> RowPool] : n \in 0 .. MaxRows}

AbdIdle ==
    /\ abd_d = 0
    /\ abd_n = 0
    /\ abd_holiday_set = None
    /\ abd_cur = 0
    /\ abd_days = 0
    /\ abd_pc = "idle"

\* The state after "schedule = []; cursor = start_date; holiday_set = ...;
\* total_bd = 0", before the first row.  The holiday set is whatever the
\* holiday calendar of the selected region yields: any subset of HolidayPool.
Init ==
    /\ start_date \in StartDates
    /\ holiday_set \in SUBSET HolidayPool
    /\ timeline_milestones \in MilestoneLists
    /\ row_i = 1
    /\ schedule = <<>>
    /\ cursor = start_date
    /\ total_bd = 0
    /\ timeline = None
    /\ pc = "build"
    /\ AbdIdle /\ RerunIdle /\ HolIdle /\ UtilIdle /\ UiIdle

\* One iteration of the for loop that takes the "continue".
SkipRow ==
    /\ pc = "build"
    /\ row_i <= Len(timeline_milestones)
    /\ RowFiltered(timeline_milestones[row_i])
    /\ row_i' = row_i + 1
    /\ UNCHANGED <<start_date, holiday_set, timeline_milestones, schedule,
                   cursor, total_bd, timeline, pc, abdVars, rerunVars,
                   holVars, utilVars, uiVars>>

\* One iteration of the for loop that appends an item.
KeepRow ==
    /\ pc = "build"
    /\ row_i <= Len(timeline_milestones)
    /\ ~RowFiltered(timeline_milestones[row_i])
    /\ LET item == ScheduleItem(timeline_milestones[row_i], cursor, holiday_set)
       IN  /\ schedule' = Append(schedule, item)
           /\ cursor' = NextCursor(item)
           /\ total_bd' = total_bd + TotalIncrement(item)
    /\ row_i' = row_i + 1
    /\ UNCHANGED <<start_date, holiday_set, timeline_milestones, timeline, pc,
                   abdVars, rerunVars, holVars, utilVars, uiVars>>

\* After the loop: payload["timeline"] = {...}.
BuildTimeline ==
    /\ pc = "build"
    /\ row_i > Len(timeline_milestones)
    /\ timeline' = Some(TimelinePayload(start_date, total_bd, schedule))
    /\ pc' = "done"
    /\ UNCHANGED <<start_date, holiday_set, timeline_milestones, row_i, schedule,
                   cursor, total_bd, abdVars, rerunVars, holVars, utilVars, uiVars>>

Next == SkipRow \/ KeepRow \/ BuildTimeline

Spec == Init /\ [][Next]_vars

\* ---- SpecRerun: the script runs again on the same inputs ----

\* The locals a run starts from: schedule = []; cursor = start_date;
\* total_bd = 0.
StaleLocals(sd) == [schedule |-> <<>>, cursor |-> cursor, total_bd |-> 0]
FreshLocals(sd) == [schedule |-> <<>>, cursor |-> sd, total_bd |-> 0]

\* The next script run: the session keeps start_date, the holiday region and
\* timeline_milestones; payload and the locals are built anew.  The first
\* run's payload["timeline"] is remembered for comparison.
Rerun ==
    /\ pc = "done"
    /\ first_timeline = None
    /\ first_timeline' = timeline
    /\ LET l == FreshLocals(start_date)
       IN  /\ schedule' = l.schedule
           /\ cursor' = l.cursor
           /\ total_bd' = l.total_bd
    /\ row_i' = 1
    /\ timeline' = None
    /\ pc' = "build"
    /\ UNCHANGED <<start_date, holiday_set, timeline_milestones, abdVars,
                   holVars, utilVars, uiVars>>

RerunNext == SkipRow \/ KeepRow \/ BuildTimeline \/ Rerun

SpecRerun == Init /\ [][RerunNext]_vars

(***************************************************************************)
(* _build_holiday_set(start_year, years_ahead=2).  The closure reads the   *)
(* module's _hol (None when the import failed) and holiday_region.  The    *)
(* holidays library is outside the repository: a region's calendar built   *)
(* for a list of years holds the region's public holidays that fall in     *)
(* those years, or the constructor raises.                                 *)
(***************************************************************************)
\* years_ahead of the call in the Build schedule code.
LookAheadYears == 3

\* Largest years_ahead a call is made with.
MaxYearsAhead == 4

\* region_options, and the names the if/elif chain builds a calendar for.
RegionOptions ==
    {"None", "United States", "Canada", "United Kingdom", "Germany", "India",
     "Australia"}
SupportedRegions == RegionOptions \ {"None"}

\* years = list(range(start_year, start_year + max(1, years_ahead) + 1))
HolidayYearsUnclamped(start_year, years_ahead) ==
    start_year .. (start_year + years_ahead)
HolidayYears(start_year, years_ahead) ==
    start_year .. (start_year + Max(1, years_ahead))

\* _hol.<Region>(years=years): the outcome of the constructor.
ProviderCalendar(ok, calendar, years) ==
    IF ok
    THEN [raised |-> FALSE, cal |-> Some({d \in calendar : Year(d) \in years})]
    ELSE [raised |-> TRUE, cal |-> None]

\* cal = None; try: <if/elif chain> except Exception: cal = None
TryConstructUncaught(region, ok, calendar, years) ==
    IF region \in SupportedRegions
    THEN ProviderCalendar(ok, calendar, years)
    ELSE [raised |-> FALSE, cal |-> None]
TryConstruct(region, ok, calendar, years) ==
    IF region \in SupportedRegions
    THEN LET r == ProviderCalendar(ok, calendar, years)
         IN  IF r.raised THEN [raised |-> FALSE, cal |-> None] ELSE r
    ELSE [raised |-> FALSE, cal |-> None]

\* return set(cal.keys()) if cal else set()
HolidayKeys(cal) == IF cal # None /\ cal[1] # {} THEN cal[1] ELSE {}

\* The guard of the early return.
HolNoCalendar(lib, region) == ~lib \/ region = "None"

\* The call's outcome: whether an exception left it, and the set returned.
_build_holiday_set(lib, region, ok, calendar, start_year, years_ahead) ==
    IF HolNoCalendar(lib, region)
    THEN [raised |-> FALSE, value |-> {}]
    ELSE LET c == TryConstruct(region, ok, calendar,
                               HolidayYears(start_year, years_ahead))
         IN  IF c.raised
             THEN [raised |-> TRUE, value |-> {}]
             ELSE [raised |-> FALSE, value |-> HolidayKeys(c.cal)]

\* ---- SpecHol: one call ----

\* The years the library's calendars of the model have holidays in.
CalendarYears == 2024 .. 2032
NewYearsDays == {Date(y, 1, 1) : y \in CalendarYears}
ChristmasDays == {Date(y, 12, 25) : y \in CalendarYears}
HolCalendars == {{}, NewYearsDays, NewYearsDays \cup ChristmasDays}

\* A name the if/elif chain does not list, besides the selectbox's options.
HolRegions == RegionOptions \cup {"France"}
HolStartYears == {2025, 2026}

HolInit ==
    /\ hol_lib \in BOOLEAN
    /\ holiday_region \in HolRegions
    /\ hol_provider_ok \in BOOLEAN
    /\ hol_calendar \in HolCalendars
    /\ hol_start_year \in HolStartYears
    /\ hol_years_ahead \in 0 .. MaxYearsAhead
    /\ hol_result = None
    /\ hol_pc = "call"
    /\ AbdIdle /\ SchedIdle /\ RerunIdle /\ UtilIdle /\ UiIdle

HolOutcome ==
    _build_holiday_set(hol_lib, holiday_region, hol_provider_ok, hol_calendar,
                       hol_start_year, hol_years_ahead)

\* if _hol is None or holiday_region == "None": return set()
HolEarlyReturn ==
    /\ hol_pc = "call"
    /\ HolNoCalendar(hol_lib, holiday_region)
    /\ hol_result' = Some(HolOutcome)
    /\ hol_pc' = "returned"
    /\ UNCHANGED <<hol_lib, holiday_region, hol_provider_ok, hol_calendar,
                   hol_start_year, hol_years_ahead>>
    /\ UNCHANGED <<abdVars, schedVars, rerunVars, utilVars, uiVars>>

\* The rest of the body: years, the guarded construction, the return.
HolBuild ==
    /\ hol_pc = "call"
    /\ ~HolNoCalendar(hol_lib, holiday_region)
    /\ hol_result' = Some(HolOutcome)
    /\ hol_pc' = IF HolOutcome.raised THEN "raised" ELSE "returned"
    /\ UNCHANGED <<hol_lib, holiday_region, hol_provider_ok, hol_calendar,
                   hol_start_year, hol_years_ahead>>
    /\ UNCHANGED <<abdVars, schedVars, rerunVars, utilVars, uiVars>>

HolNext == HolEarlyReturn \/ HolBuild

SpecHol == HolInit /\ [][HolNext]_vars

(***************************************************************************)
(* SpecYears: the Build schedule code from the call of _build_holiday_set  *)
(* on, each call of _add_business_days run one loop iteration per step, so *)
(* that chains of several years fit.                                       *)
(***************************************************************************)
\* Longest milestone list of a chain.
YMaxRows == 2

\* Business days of the long milestone of a chain.
LongDuration == 800

YStartDates == Date(2025, 12, 29) .. Date(2025, 12, 31)

YRowPool ==
    {[name |-> "Program", duration |-> LongDuration, notes |-> ""],
     [name |-> "Pilot", duration |-> 5, notes |-> ""],
     [name |-> "Gate", duration |-> 0, notes |-> "go/no-go"],
     [name |-> "", duration |-> 0, notes |-> ""]}

YMilestoneLists == UNION {[1 .. n -> YRowPool] : n \in 1 .. YMaxRows}

\* The state before "holiday_set = _build_holiday_set(start_date.year,
\* years_ahead=3)": the library is present and its calendar of the selected
\* region has the holidays of CalendarYears.
YInit ==
    /\ start_date \in YStartDates
    /\ timeline_milestones \in YMilestoneLists
    /\ holiday_set = {}
    /\ row_i = 1
    /\ schedule = <<>>
    /\ cursor = start_date
    /\ total_bd = 0
    /\ timeline = None
    /\ pc = "holidays"
    /\ hol_lib = TRUE
    /\ holiday_region \in {"None", "United States"}
    /\ hol_provider_ok = TRUE
    /\ hol_calendar = NewYearsDays \cup ChristmasDays
    /\ hol_start_year = Year(start_date)
    /\ hol_years_ahead = LookAheadYears
    /\ hol_result = None
    /\ hol_pc = "call"
    /\ AbdIdle /\ RerunIdle /\ UtilIdle /\ UiIdle

\* holiday_set = _build_holiday_set(start_date.year, years_ahead=3)
YHolidays ==
    /\ pc = "holidays"
    /\ ~HolOutcome.raised
    /\ hol_result' = Some(HolOutcome)
    /\ hol_pc' = "returned"
    /\ holiday_set' = HolOutcome.value
    /\ pc' = "build"
    /\ UNCHANGED <<hol_lib, holiday_region, hol_provider_ok, hol_calendar,
                   hol_start_year, hol_years_ahead>>
    /\ UNCHANGED <<start_date, timeline_milestones, row_i, schedule, cursor,
                   total_bd, timeline, abdVars, rerunVars, utilVars, uiVars>>

\* An iteration that appends an item with dur <= 0: end = start.
YKeepZero ==
    /\ pc = "build"
    /\ row_i <= Len(timeline_milestones)
    /\ RowDur(timeline_milestones[row_i]) <= 0
    /\ KeepRow

\* An iteration with dur > 0 enters _add_business_days(start, dur, holiday_set).
YCall ==
    /\ pc = "build"
    /\ row_i <= Len(timeline_milestones)
    /\ ~RowFiltered(timeline_milestones[row_i])
    /\ RowDur(timeline_milestones[row_i]) > 0
    /\ abd_d' = cursor
    /\ abd_n' = RowDur(timeline_milestones[row_i])
    /\ abd_holiday_set' = Some(holiday_set)
    /\ abd_cur' = cursor
    /\ abd_days' = RowDur(timeline_milestones[row_i])
    /\ abd_pc' = "loop"
    /\ pc' = "call"
    /\ UNCHANGED <<start_date, holiday_set, timeline_milestones, row_i,
                   schedule, cursor, total_bd, timeline, rerunVars, holVars,
                   utilVars, uiVars>>

\* The call returned cur: the item is appended with end = cur.
YAppend ==
    /\ pc = "call"
    /\ abd_pc = "returned"
    /\ LET row == timeline_milestones[row_i]
           item == [name |-> IF RowName(row) # "" THEN RowName(row)
                                                 ELSE "(Unnamed)",
                    duration_bd |-> RowDur(row),
                    start |-> cursor,
                    end |-> abd_cur,
                    notes |-> RowNotes(row)]
       IN  /\ schedule' = Append(schedule, item)
           /\ cursor' = NextCursor(item)
           /\ total_bd' = total_bd + TotalIncrement(item)
    /\ row_i' = row_i + 1
    /\ pc' = "build"
    /\ abd_pc' = "idle"
    /\ UNCHANGED <<abd_d, abd_n, abd_holiday_set, abd_cur, abd_days>>
    /\ UNCHANGED <<start_date, holiday_set, timeline_milestones, timeline,
                   rerunVars, holVars, utilVars, uiVars>>

YNext ==
    \/ YHolidays
    \/ SkipRow
    \/ YKeepZero
    \/ YCall
    \/ AbdStep
    \/ AbdReturn
    \/ YAppend
    \/ BuildTimeline

SpecYears == YInit /\ [][YNext]_vars

(***************************************************************************)
(* SpecTotal: a call of _add_business_days on its own, or the Build        *)
(* schedule code with its calls run step by step, under weak fairness: the *)
(* interpreter runs the script's next statement whenever there is one.     *)
(***************************************************************************)
TRowPool ==
    {[name |-> "Planning", duration |-> 5, notes |-> ""],
     [name |-> "  ", duration |-> 2, notes |-> "tbc"],
     [name |-> "Cutover", duration |-> 0 - 2, notes |-> "neg"],
     [name |-> "", duration |-> 0, notes |-> ""]}

TMilestoneLists == UNION {[1 .. n -> TRowPool] : n \in 0 .. MaxRows}

TInit ==
    /\ start_date \in StartDates
    /\ timeline_milestones \in TMilestoneLists
    /\ holiday_set = {}
    /\ row_i = 1
    /\ schedule = <<>>
    /\ cursor = start_date
    /\ total_bd = 0
    /\ timeline = None
    /\ pc = "holidays"
    /\ hol_lib = TRUE
    /\ holiday_region \in {"None", "Canada"}
    /\ hol_provider_ok \in BOOLEAN
    /\ hol_calendar = HolidayPool
    /\ hol_start_year = Year(start_date)
    /\ hol_years_ahead = LookAheadYears
    /\ hol_result = None
    /\ hol_pc = "call"
    /\ AbdIdle /\ RerunIdle /\ UtilIdle /\ UiIdle

SpecTotal == (AbdInit \/ TInit) /\ [][YNext]_vars /\ WF_vars(YNext)

(***************************************************************************)
(* join_human, md_line, is_meaningful (wizard_utils.py, and the copies in  *)
(* naf_naf_solution_wizard.py) and the narrative sentences built on them.  *)
(* A list item or a text is None or Some(string).                          *)
(***************************************************************************)
\* Longest list handed to join_human.
MaxItems == 3

\* Python truth of an item or text: not None and not "".
TruthyNotNone(i) == i # None
Truthy(i) == i # None /\ i[1] # ""

\* [i for i in (items or []) if i], as a sequence of strings.
RECURSIVE KeepTruthy(_)
KeepTruthy(l) ==
    IF l = <<>> THEN <<>>
    ELSE IF Truthy(Head(l)) THEN <<Head(l)[1]>> \o KeepTruthy(Tail(l))
         ELSE KeepTruthy(Tail(l))

ItemsOrEmpty(items) == IF items = None THEN <<>> ELSE items[1]

\* sep.join(strs)
RECURSIVE StrJoin(_, _)
StrJoin(sep, strs) ==
    IF strs = <<>> THEN ""
    ELSE IF Len(strs) = 1 THEN strs[1]
         ELSE strs[1] \o sep \o StrJoin(sep, Tail(strs))

join_human(items) ==
    LET kept == KeepTruthy(ItemsOrEmpty(items))
    IN  IF kept = <<>> THEN "TBD"
        ELSE IF Len(kept) = 1 THEN kept[1]
             ELSE StrJoin(", ", SubSeq(kept, 1, Len(kept) - 1))
                      \o " and " \o kept[Len(kept)]

\* f"- {text}" if text else ""
md_lineAlwaysBullet(text) == "- " \o (IF text = None THEN "" ELSE text[1])
md_line(text) == IF Truthy(text) THEN "- " \o text[1] ELSE ""

\* str.lower()
UpperLetters == "ABCDEFGHIJKLMNOPQRSTUVWXYZ"
LowerLetters == "abcdefghijklmnopqrstuvwxyz"
LowerChar(c) ==
    IF \E i \in 1 .. Len(UpperLetters) : SubSeq(UpperLetters, i, i) = c
    THEN LET i == CHOOSE j \in 1 .. Len(UpperLetters) :
                      SubSeq(UpperLetters, j, j) = c
         IN  SubSeq(LowerLetters, i, i)
    ELSE c

LowerIdentity(s) == s
RECURSIVE Lower(_)
Lower(s) ==
    IF Len(s) = 0 THEN ""
    ELSE LowerChar(SubSeq(s, 1, 1)) \o Lower(SubSeq(s, 2, Len(s)))

\* sub in s
Contains(sub, s) ==
    \E i \in 1 .. (Len(s) - Len(sub) + 1) :
        SubSeq(s, i, i + Len(sub) - 1) = sub

default_placeholders ==
    {"no additional gating logic beyond the defined go/no-go criteria.",
     "this solution will not employ a distinct orchestration layer."}

is_meaningful(text) ==
    IF ~Truthy(text) THEN FALSE
    ELSE LET t == Lower(Strip(text[1]))
         IN  IF t = "" \/ Contains("tbd", t) THEN FALSE
             ELSE t \notin default_placeholders

\* _join(items): return join_human(items)
JoinEmptyForNone(items) ==
    IF KeepTruthy(ItemsOrEmpty(items)) = <<>> THEN "" ELSE join_human(items)
_join(items) == join_human(items)

\* The openings of users_sentence, interaction_sentence, tools_sentence and
\* auth_sentence_pres.
SentencePrefixes ==
    {"This solution targets ",
     "Users will interact with the solution via ",
     "The presentation layer will be built using ",
     "Presentation authentication will use "}

\* f"<prefix>{_join(selected)}."
Sentence(prefix, items) == prefix \o _join(items) \o "."

\* ---- SpecUtil ----

ItemPool ==
    {None, Some(""), Some("CLI"), Some("Web GUI"), Some("API"), Some("TBD"),
     Some("Portal (tbd)")}

ItemLists ==
    {None} \cup {Some(l) : l \in UNION {[1 .. n -> ItemPool] : n \in 0 .. MaxItems}}

TextPool ==
    {None, Some(""), Some("   "), Some(" \t\n"), Some("TBD"),
     Some("Status: Tbd soon"),
     Some("  No additional gating logic beyond the defined Go/No-Go criteria.\n"),
     Some("This solution will not employ a distinct orchestration layer."),
     Some("This solution will not employ a distinct orchestration layer"),
     Some("Users will interact with the solution via CLI and API."),
     Some(" ok ")}

\* Either a selection list about to be joined into a sentence, or a text
\* about to be tested and rendered.
UtilInit ==
    /\ \/ /\ util_pc = "join"
          /\ util_items \in ItemLists
          /\ util_text = None
       \/ /\ util_pc = "check"
          /\ util_items = None
          /\ util_text \in TextPool
    /\ util_joined = None
    /\ util_meaningful = FALSE
    /\ util_md = None
    /\ AbdIdle /\ SchedIdle /\ RerunIdle /\ HolIdle /\ UiIdle

UtilJoin ==
    /\ util_pc = "join"
    /\ util_joined' = Some(join_human(util_items))
    /\ util_pc' = "sentence"
    /\ UNCHANGED <<util_items, util_text, util_meaningful, util_md>>
    /\ UNCHANGED <<abdVars, schedVars, rerunVars, holVars, uiVars>>

UtilSentence ==
    /\ util_pc = "sentence"
    /\ \E prefix \in SentencePrefixes :
          util_text' = Some(Sentence(prefix, util_items))
    /\ util_pc' = "check"
    /\ UNCHANGED <<util_items, util_joined, util_meaningful, util_md>>
    /\ UNCHANGED <<abdVars, schedVars, rerunVars, holVars, uiVars>>

UtilCheck ==
    /\ util_pc = "check"
    /\ util_meaningful' = is_meaningful(util_text)
    /\ util_md' = Some(md_line(util_text))
    /\ util_pc' = "done"
    /\ UNCHANGED <<util_items, util_joined, util_text>>
    /\ UNCHANGED <<abdVars, schedVars, rerunVars, holVars, uiVars>>

UtilNext == UtilJoin \/ UtilSentence \/ UtilCheck

SpecUtil == UtilInit /\ [][UtilNext]_vars

(***************************************************************************)
(* SpecRows: the milestone rows of one script run: the "Add milestone row" *)
(* button, the render loop that writes every row's widget values back to   *)
(* the session list, and the deletions.  idx counts from 0 as in the code. *)
(***************************************************************************)
CoreIdle == AbdIdle /\ SchedIdle /\ RerunIdle /\ HolIdle /\ UtilIdle

\* What a rows action leaves alone besides rowsVars.
rowsOthers == <<coreVars, ucVars, wizVars>>
RowsOthersIdle == CoreIdle /\ UcIdle /\ WizIdle

\* The rows a new session starts with.
DefaultMilestones ==
    <<[name |-> "Planning", duration |-> 5, notes |-> ""],
      [name |-> "Design", duration |-> 10, notes |-> ""],
      [name |-> "Build", duration |-> 10, notes |-> ""],
      [name |-> "Test", duration |-> 5, notes |-> ""],
      [name |-> "Pilot", duration |-> 5, notes |-> ""],
      [name |-> "Production Rollout", duration |-> 10, notes |-> ""]>>

\* The row "Add milestone row" appends.
BlankRow == [name |-> "", duration |-> 0, notes |-> ""]

\* What the three widgets of a row can return: the row's values, or values
\* the user typed.
WidgetValues(row) ==
    {row, [name |-> "Cutover", duration |-> 7, notes |-> "edited"]}

\* The list without its element at Python index i.
Pop(l, i) == SubSeq(l, 1, i) \o SubSeq(l, i + 2, Len(l))

\* sorted(to_delete, reverse=True)
RECURSIVE SortedReverse(_)
DeletionOrderAscending(l) == l
SortedReverse(l) ==
    IF l = <<>> THEN <<>>
    ELSE LET mx == CHOOSE i \in 1 .. Len(l) : \A j \in 1 .. Len(l) : l[i] >= l[j]
         IN  <<l[mx]>> \o SortedReverse(SubSeq(l, 1, mx - 1) \o SubSeq(l, mx + 1, Len(l)))

RowsInit ==
    /\ rows_list \in {SubSeq(DefaultMilestones, 1, n) : n \in 0 .. MaxRows}
    /\ rows_n = 0
    /\ rows_idx = 0
    /\ rows_edited = <<>>
    /\ rows_to_delete = <<>>
    /\ rows_k = 0
    /\ rows_pc = "controls"
    /\ RowsOthersIdle

\* The button was pressed: a blank row is appended; the render loop then
\* starts over a copy of the list.
RowsAdd ==
    /\ rows_pc = "controls"
    /\ rows_list' = Append(rows_list, BlankRow)
    /\ rows_n' = Len(rows_list) + 1
    /\ rows_pc' = "render"
    /\ UNCHANGED <<rows_idx, rows_edited, rows_to_delete, rows_k, rowsOthers>>

\* The button was not pressed.
RowsNoAdd ==
    /\ rows_pc = "controls"
    /\ rows_n' = Len(rows_list)
    /\ rows_pc' = "render"
    /\ UNCHANGED <<rows_list, rows_idx, rows_edited, rows_to_delete, rows_k,
                   rowsOthers>>

\* One iteration of the render loop.
RenderRow ==
    /\ rows_pc = "render"
    /\ rows_idx < rows_n
    /\ \E w \in WidgetValues(rows_list[rows_idx + 1]), del_flag \in BOOLEAN :
          /\ rows_to_delete' = IF del_flag THEN Append(rows_to_delete, rows_idx)
                                            ELSE rows_to_delete
          /\ rows_list' = [rows_list EXCEPT ![rows_idx + 1] = w]
          /\ rows_edited' = Append(rows_edited, w)
    /\ rows_idx' = rows_idx + 1
    /\ UNCHANGED <<rows_n, rows_k, rows_pc, rowsOthers>>

\* One iteration of "for i in sorted(to_delete, reverse=True)".
PopRow ==
    /\ rows_pc = "render"
    /\ rows_idx = rows_n
    /\ rows_k < Len(rows_to_delete)
    /\ LET i == SortedReverse(rows_to_delete)[rows_k + 1]
       IN  rows_list' = IF 0 <= i /\ i < Len(rows_list) THEN Pop(rows_list, i)
                                                        ELSE rows_list
    /\ rows_k' = rows_k + 1
    /\ UNCHANGED <<rows_n, rows_idx, rows_edited, rows_to_delete, rows_pc,
                   rowsOthers>>

\* Both loops are over.
RowsEnd ==
    /\ rows_pc = "render"
    /\ rows_idx = rows_n
    /\ rows_k = Len(rows_to_delete)
    /\ rows_pc' = "done"
    /\ UNCHANGED <<rows_list, rows_n, rows_idx, rows_edited, rows_to_delete,
                   rows_k, rowsOthers>>

RowsNext == RowsAdd \/ RowsNoAdd \/ RenderRow \/ PopRow \/ RowsEnd

SpecRows == RowsInit /\ [][RowsNext]_vars

(***************************************************************************)
(* SpecUseCases: runs of the Automation Use Cases page                     *)
(* (pages/10_NAF_Automation_UseCase.py).  A use case is modelled by its    *)
(* name and description, the fields its selector label is made of.         *)
(***************************************************************************)
\* Most use cases the "Add new use case" button is pressed for.
MaxUseCases == 3

ucOthers == <<coreVars, rowsVars, wizVars>>
UcOthersIdle == CoreIdle /\ RowsIdle /\ WizIdle

_new_use_case == [name |-> "", description |-> ""]

\* What the widgets of _edit_use_case can return for a use case.
UseCaseEdits(uc) ==
    {uc, [uc EXCEPT !.name = "Backup"], [uc EXCEPT !.description = "Upgrade OS"]}

\* min(idx, len(use_cases) - 1) if use_cases else -1, after the pop.
IndexAfterDeleteUnclamped(idx, n) == idx
IndexAfterDelete(idx, n) == IF n > 0 THEN (IF idx <= n - 1 THEN idx ELSE n - 1) ELSE 0 - 1

\* A new session: neither key is in st.session_state.
UcInit ==
    /\ uc_list = None
    /\ uc_index = None
    /\ uc_button = "none"
    /\ uc_before = None
    /\ uc_pc = "start"
    /\ UcOthersIdle

\* _ensure_state()
UcEnsureState ==
    /\ uc_pc = "start"
    /\ LET l == IF uc_list = None THEN <<>> ELSE uc_list[1]
       IN  /\ uc_list' = Some(l)
           /\ uc_index' = IF uc_index = None
                          THEN Some(IF l # <<>> THEN 0 ELSE 0 - 1)
                          ELSE uc_index
           /\ uc_before' = Some([use_cases |-> l, index |-> uc_index'[1]])
    /\ uc_button' = "none"
    /\ uc_pc' = "controls"
    /\ UNCHANGED ucOthers

\* "Add new use case" was pressed.
UcAdd ==
    /\ uc_pc = "controls"
    /\ Len(uc_list[1]) < MaxUseCases
    /\ uc_list' = Some(Append(uc_list[1], _new_use_case))
    /\ uc_index' = Some(Len(uc_list[1]) + 1 - 1)
    /\ uc_button' = "add"
    /\ uc_pc' = "select"
    /\ UNCHANGED <<uc_before, ucOthers>>

\* "Delete current use case" was pressed; the button exists only when there
\* are use cases.
UcDelete ==
    /\ uc_pc = "controls"
    /\ uc_list[1] # <<>>
    /\ LET idx == uc_index[1]
           l == uc_list[1]
       IN  IF 0 <= idx /\ idx < Len(l)
           THEN /\ uc_list' = Some(Pop(l, idx))
                /\ uc_index' = Some(IndexAfterDelete(idx, Len(l) - 1))
           ELSE UNCHANGED <<uc_list, uc_index>>
    /\ uc_button' = "delete"
    /\ uc_pc' = "select"
    /\ UNCHANGED <<uc_before, ucOthers>>

\* No button was pressed: the run was caused by another widget.
UcNoButton ==
    /\ uc_pc = "controls"
    /\ uc_pc' = "select"
    /\ UNCHANGED <<uc_list, uc_index, uc_button, uc_before, ucOthers>>

\* _select_use_case() with no use case: returns -1 and main returns.
UcSelectNone ==
    /\ uc_pc = "select"
    /\ uc_list[1] = <<>>
    /\ uc_pc' = "end"
    /\ UNCHANGED <<uc_list, uc_index, uc_button, uc_before, ucOthers>>

\* _select_use_case(): the selectbox returns one of its options, the one
\* the user picked or the default index.
UcSelect ==
    /\ uc_pc = "select"
    /\ uc_list[1] # <<>>
    /\ \E sel \in 0 .. (Len(uc_list[1]) - 1) : uc_index' = Some(sel)
    /\ uc_pc' = "edit"
    /\ UNCHANGED <<uc_list, uc_button, uc_before, ucOthers>>

\* _edit_use_case(active_idx): the widgets' values are written to the use
\* case at the active index.
UcEdit ==
    /\ uc_pc = "edit"
    /\ LET idx == uc_index[1]
           l == uc_list[1]
       IN  IF idx < 0 \/ idx >= Len(l)
           THEN UNCHANGED uc_list
           ELSE \E uc \in UseCaseEdits(l[idx + 1]) :
                    uc_list' = Some([l EXCEPT ![idx + 1] = uc])
    /\ uc_pc' = "end"
    /\ UNCHANGED <<uc_index, uc_button, uc_before, ucOthers>>

\* The next interaction runs the page again.
UcRerun ==
    /\ uc_pc = "end"
    /\ uc_pc' = "start"
    /\ UNCHANGED <<uc_list, uc_index, uc_button, uc_before, ucOthers>>

UcNext ==
    \/ UcEnsureState
    \/ UcAdd
    \/ UcDelete
    \/ UcNoButton
    \/ UcSelectNone
    \/ UcSelect
    \/ UcEdit
    \/ UcRerun

SpecUseCases == UcInit /\ [][UcNext]_vars

-----------------------------------------------------------------------------
(***************************************************************************)
(* SpecGate: content detection, the Solution Highlights summary and the    *)
(* sidebar export gate of one script run, from the values the widgets      *)
(* returned to what the run displayed and offered.  Intent, Observability  *)
(* and Collector are left without any selection.  Characters outside       *)
(* ASCII are transliterated: the em dashes of the sentinel are "--", the   *)
(* en dash of the orchestration options is "-", the bullet of the timeline *)
(* line is "*" and its arrow is "->".                                      *)
(***************************************************************************)
SENTINEL_SELECT == "-- Select one --"
ORCH_SENTINEL == "-- Select one --"

default_title == "My new network automation project"
default_desc ==
    "Here is a short description of my my new network automation project"

default_deps ==
    <<[name |-> "Network Infrastructure", details |-> ""],
      [name |-> "Revision Control system", details |-> "GitHub"]>>

\* A Python list of strings as the argument _join takes.
AsItems(l) == Some([i \in DOMAIN l |-> Some(l[i])])

\* x or 'TBD'
OrTBD(x) == IF x = "" THEN "TBD" ELSE x

_norm(choice, other) ==
    IF choice = "Other (fill in)" THEN Strip(other)
    ELSE IF choice = SENTINEL_SELECT THEN ""
    ELSE choice

orch_sentence(orch_choice, orch_details) ==
    IF orch_choice = ORCH_SENTINEL THEN ""
    ELSE IF orch_choice = "No"
    THEN "No Orchestration will be used in this project."
    ELSE IF orch_choice = "Yes - internal via custom scripts and logic"
    THEN "Orchestration will be implemented internally using custom scripts and logic to coordinate end-to-end workflows."
    ELSE IF orch_choice = "Yes - provide details"
    THEN "Orchestration will be utilized: " \o OrTBD(Strip(orch_details)) \o "."
    ELSE ""

\* payload["intent"], payload["observability"] and payload["collector"]
\* when nothing is selected or typed in those sections.
IntentUntouched ==
    [development |-> Sentence("Intent will be developed using ", AsItems(<<>>)),
     provided |-> Sentence("Intent will be provided via ", AsItems(<<>>)),
     selections |-> [development |-> <<>>, provided |-> <<>>]]

ObservabilityUntouched ==
    [methods |-> Sentence("Network state will be determined via ",
                          AsItems(<<>>)),
     go_no_go |-> "Go/No-Go criteria: " \o OrTBD(Strip("")) \o ".",
     additional_logic |->
         "No additional gating logic beyond the defined go/no-go criteria.",
     tools |-> Sentence("Observability will be supported by ", AsItems(<<>>)),
     selections |-> [methods |-> <<>>, tools |-> <<>>]]

CollectorUntouched ==
    [methods |-> Sentence("Collection will use ", AsItems(<<>>)),
     auth |-> Sentence("Authentication will leverage ", AsItems(<<>>)),
     handling |-> Sentence("Traffic handling will include ", AsItems(<<>>)),
     normalization |-> Sentence("Collected data will be normalized via ",
                                AsItems(<<>>)),
     scale |-> "Expected scale: ~" \o OrTBD("") \o " devices, ~" \o OrTBD("")
                   \o " metrics/sec, cadence " \o OrTBD("") \o ".",
     tools |-> Sentence("Collection tools will include ", AsItems(<<>>)),
     selections |-> [methods |-> <<>>, auth |-> <<>>, handling |-> <<>>,
                     normalization |-> <<>>, tools |-> <<>>]]

\* The payload the sections build from the widget values w.  A selections
\* record holds the list-valued entries of the section's selections.
BuildPayload(w) ==
    [my_role |->
         [who |-> _norm(w.role_choice, w.role_other),
          skills |-> _norm(SENTINEL_SELECT, ""),
          developer |-> _norm(SENTINEL_SELECT, "")],
     initiative |->
         [title |-> w.title, description |-> w.description,
          out_of_scope |-> ""],
     presentation |->
         [users |-> Sentence("This solution targets ", AsItems(w.users)),
          interaction |-> Sentence("Users will interact with the solution via ",
                                   AsItems(<<>>)),
          tools |-> Sentence("The presentation layer will be built using ",
                             AsItems(<<>>)),
          auth |-> Sentence("Presentation authentication will use ",
                            AsItems(<<>>)),
          selections |-> [users |-> w.users, interactions |-> <<>>,
                          tools |-> <<>>, auth |-> <<>>]],
     intent |-> IntentUntouched,
     observability |-> ObservabilityUntouched,
     orchestration |->
         [summary |-> orch_sentence(w.orch_choice, w.orch_details),
          selections |-> [choice |-> w.orch_choice,
                          details |-> w.orch_details]],
     collector |-> CollectorUntouched,
     executor |->
         [methods |-> Sentence("Execution will be performed using ",
                               AsItems(w.exec)),
          selections |-> [methods |-> w.exec]],
     dependencies |-> w.deps,
     timeline |-> w.timeline]

\* [{"name": ..., "details": ....strip()} for d in deps if d.get("name")]
deps_slim(deps) ==
    LET named == SelectSeq(deps, LAMBDA d : d.name # "")
    IN  [i \in DOMAIN named |->
            [name |-> named[i].name, details |-> Strip(named[i].details)]]

\* sorted(items, key=lambda x: (name, details)).  The key is the whole item,
\* so two sorted lists are equal exactly when they hold the same items the
\* same number of times: the sorted list is represented by that bag.
_sorted(items) ==
    [x \in {items[i] : i \in DOMAIN items} |->
        Cardinality({i \in DOMAIN items : items[i] = x})]

\* _sorted(deps_slim) == _sorted(default_deps); the same comparison is made by
\* _has_any_content, by the highlights block and by the summary builder.
LooksDefaultByNames(deps) ==
    {deps_slim(deps)[i].name : i \in DOMAIN deps_slim(deps)}
        = {default_deps[i].name : i \in DOMAIN default_deps}
looks_default_deps(deps) == _sorted(deps_slim(deps)) = _sorted(default_deps)

\* any(is_meaningful(narr.get(k)) for k in keys)
AnyMeaningful(narr, keys) == \E k \in keys : is_meaningful(Some(narr[k]))

\* bool((title and title != default_title) or (desc and desc != default_desc))
ini_nondefault(ini) ==
    LET _title == Strip(ini.title)
        _desc == Strip(ini.description)
    IN  (_title # "" /\ _title # default_title)
            \/ (_desc # "" /\ _desc # default_desc)

\* any((my_role.get(k) or "").strip() for k in ("who", "skills", "developer"))
role_nonempty(my_role) ==
    \E k \in {"who", "skills", "developer"} : Strip(my_role[k]) # ""

_has_any_content(p) ==
    LET pres_flag == AnyMeaningful(p.presentation,
                                   {"users", "interaction", "tools", "auth"})
        intent_flag == AnyMeaningful(p.intent, {"development", "provided"})
        obs_flag == AnyMeaningful(p.observability,
                        {"methods", "go_no_go", "additional_logic", "tools"})
        _orch_choice == Strip(p.orchestration.selections.choice)
        orch_flag == (_orch_choice # "" /\ _orch_choice # ORCH_SENTINEL)
                        \/ is_meaningful(Some(p.orchestration.summary))
        coll_flag == AnyMeaningful(p.collector,
                         {"methods", "auth", "handling", "normalization",
                          "scale", "tools"})
        exec_flag == is_meaningful(Some(p.executor.methods))
        deps_flag == p.dependencies # <<>>
                        /\ ~looks_default_deps(p.dependencies)
        tl_flag == Strip(p.timeline.staffing_plan_md) # ""
        ini_flag == ini_nondefault(p.initiative)
        role_flag == role_nonempty(p.my_role)
    IN  \/ pres_flag \/ intent_flag \/ obs_flag \/ orch_flag \/ coll_flag
        \/ exec_flag \/ deps_flag \/ tl_flag \/ ini_flag \/ role_flag

\* The fallback on st.session_state["orch_choice"], the radio's own key.
OrchFallback(orch_choice_ss) ==
    Strip(orch_choice_ss) # "" /\ Strip(orch_choice_ss) # ORCH_SENTINEL

\* dep_lines of the Dependencies block in the highlights.
HighlightsDepLines(deps) ==
    IF deps = <<>> \/ looks_default_deps(deps) THEN <<>>
    ELSE LET slim == deps_slim(deps)
         IN  [i \in DOMAIN slim |->
                 md_line(Some(IF slim[i].details # ""
                              THEN slim[i].name \o ": " \o slim[i].details
                              ELSE slim[i].name))]

\* _has_list_selections over the six sections' selections.  The entries of
\* the orchestration selections are strings, never lists.
_has_list_selections(d) == \E k \in DOMAIN d : Len(d[k]) > 0

AnyListSelection(p) ==
    \/ _has_list_selections(p.presentation.selections)
    \/ _has_list_selections(p.intent.selections)
    \/ _has_list_selections(p.observability.selections)
    \/ _has_list_selections(p.collector.selections)
    \/ _has_list_selections(p.executor.selections)

\* orch_nondefault of the sidebar gate: the payload's choice, else the
\* session's.
OrchNondefaultExceptNo(p, orch_choice_ss) ==
    LET orch_choice == IF Strip(p.orchestration.selections.choice) # ""
                       THEN Strip(p.orchestration.selections.choice)
                       ELSE Strip(orch_choice_ss)
    IN  orch_choice # "" /\ orch_choice # ORCH_SENTINEL /\ orch_choice # "No"
orch_nondefault(p, orch_choice_ss) ==
    LET orch_choice == IF Strip(p.orchestration.selections.choice) # ""
                       THEN Strip(p.orchestration.selections.choice)
                       ELSE Strip(orch_choice_ss)
    IN  orch_choice # "" /\ orch_choice # ORCH_SENTINEL

\* _section_md(title, lines)
_section_md(title, lines) ==
    LET kept == SelectSeq(lines, LAMBDA l : Strip(l) # "")
    IN  IF kept = <<>> THEN ""
        ELSE "## " \o title \o "\n" \o StrJoin("\n", kept) \o "\n\n"

\* [f"- {v}" for k in keys if (v := narr.get(k)) and is_meaningful(v)]
RECURSIVE NarrativeLines(_, _)
NarrativeLines(narr, keys) ==
    IF keys = <<>> THEN <<>>
    ELSE (IF narr[Head(keys)] # "" /\ is_meaningful(Some(narr[Head(keys)]))
          THEN <<"- " \o narr[Head(keys)]>> ELSE <<>>)
             \o NarrativeLines(narr, Tail(keys))

\* The lines of a section built by "if cond: lines.append(text)" statements.
RECURSIVE Appended(_)
Appended(conds) ==
    IF conds = <<>> THEN <<>>
    ELSE (IF Head(conds)[1] THEN <<Head(conds)[2]>> ELSE <<>>)
             \o Appended(Tail(conds))

SummaryDepLines(deps) ==
    IF deps = <<>> \/ looks_default_deps(deps) THEN <<>>
    ELSE LET slim == deps_slim(deps)
         IN  [i \in DOMAIN slim |->
                 "- " \o slim[i].name
                     \o (IF slim[i].details # "" THEN ": " \o slim[i].details
                         ELSE "")]

\* tl_lines: the header line and one line per item of items[:15].
TimelineLines(tl) ==
    LET shown == SubSeq(tl.items, 1, IF Len(tl.items) < 15 THEN Len(tl.items)
                                     ELSE 15)
    IN  <<"- Staff " \o ToString(tl.staff_count)
              \o " * Start " \o OrTBD(tl.start_date)
              \o " * Total " \o ToString(tl.total_business_days)
              \o " bd * Completion "
              \o (IF tl.projected_completion = None THEN "TBD"
                  ELSE tl.projected_completion[1])>>
        \o [i \in DOMAIN shown |->
               "  - " \o shown[i].name \o ": " \o shown[i].start \o " -> "
                   \o shown[i].end \o " (" \o ToString(shown[i].duration_bd)
                   \o " bd)"]

\* summary_md of the markdown summary builder.
SummaryMd(p) ==
    LET my_role == p.my_role
        ini == p.initiative
        _title == Strip(ini.title)
        _desc == Strip(ini.description)
        _out == Strip(ini.out_of_scope)
        role_lines == Appended(
            <<<<Strip(my_role.who) # "", "- Who: " \o my_role.who>>,
              <<Strip(my_role.skills) # "", "- Skills: " \o my_role.skills>>,
              <<Strip(my_role.developer) # "",
                "- Developer: " \o my_role.developer>>>>)
        ini_lines == Appended(
            <<<<_title # "" /\ _title # default_title, "- Title: " \o _title>>,
              <<_desc # "" /\ _desc # default_desc, "- Scope: " \o _desc>>,
              <<_out # "", "- Out of scope: " \o _out>>>>)
        tl == p.timeline
        tl_staff_md == Strip(tl.staffing_plan_md)
        summary_parts ==
            <<_section_md("My Role", role_lines),
              _section_md("Initiative", ini_lines),
              _section_md("Presentation",
                  NarrativeLines(p.presentation,
                                 <<"users", "interaction", "tools", "auth">>)),
              _section_md("Intent",
                  NarrativeLines(p.intent, <<"development", "provided">>)),
              _section_md("Observability",
                  NarrativeLines(p.observability,
                      <<"methods", "go_no_go", "additional_logic", "tools">>)),
              _section_md("Orchestration",
                  NarrativeLines(p.orchestration, <<"summary">>)),
              _section_md("Collector",
                  NarrativeLines(p.collector,
                      <<"methods", "auth", "handling", "normalization",
                        "scale", "tools">>)),
              _section_md("Executor",
                  NarrativeLines(p.executor, <<"methods">>)),
              _section_md("Dependencies & External Interfaces",
                  SummaryDepLines(p.dependencies))>>
            \o (IF tl.items # <<>>
                THEN <<_section_md("Staffing, Timeline, & Milestones",
                                   TimelineLines(tl))>>
                ELSE <<>>)
            \o (IF tl_staff_md # ""
                THEN <<"\n## Staffing Plan\n", tl_staff_md \o "\n">>
                ELSE <<>>)
    IN  Strip(StrJoin("", summary_parts))

\* One script run from the payload on: content detection, the Dependencies
\* block of the highlights, the in-page reminder, the summary, and the
\* sidebar's download button or reminder.  orch_choice_ss is
\* st.session_state["orch_choice"].
GateOutcome(p, orch_choice_ss) ==
    LET detected == _has_any_content(p) \/ OrchFallback(orch_choice_ss)
        dep_lines == HighlightsDepLines(p.dependencies)
        any_content == detected \/ dep_lines # <<>>
        has_any_selection == AnyListSelection(p)
        changed == \/ has_any_selection
                   \/ ini_nondefault(p.initiative)
                   \/ orch_nondefault(p, orch_choice_ss)
                   \/ role_nonempty(p.my_role)
        download ==
            IF any_content
            THEN \/ has_any_selection \/ role_nonempty(p.my_role)
                 \/ ini_nondefault(p.initiative)
                 \/ orch_nondefault(p, orch_choice_ss)
                 \/ role_nonempty(p.my_role)
            ELSE /\ orch_nondefault(p, orch_choice_ss)
                 /\ ~(\/ has_any_selection
                      \/ ini_nondefault(p.initiative)
                      \/ role_nonempty(p.my_role))
    IN  [any_content |-> any_content,
         dep_lines |-> dep_lines,
         page_reminder |-> ~any_content /\ ~changed,
         summary_md |-> IF any_content THEN Some(SummaryMd(p)) ELSE None,
         download |-> download,
         sidebar_reminder |-> ~download]

\* ---- SpecGate ----

\* payload["timeline"] of a session started on Monday 2025-01-06 with the
\* default rows and no holiday calendar, and of one whose rows were all
\* deleted; dates are the strftime("%Y-%m-%d") strings.
DefaultTimelineItems ==
    <<[name |-> "Planning", duration_bd |-> 5,
       start |-> "2025-01-06", end |-> "2025-01-13", notes |-> ""],
      [name |-> "Design", duration_bd |-> 10,
       start |-> "2025-01-13", end |-> "2025-01-27", notes |-> ""],
      [name |-> "Build", duration_bd |-> 10,
       start |-> "2025-01-27", end |-> "2025-02-10", notes |-> ""],
      [name |-> "Test", duration_bd |-> 5,
       start |-> "2025-02-10", end |-> "2025-02-17", notes |-> ""],
      [name |-> "Pilot", duration_bd |-> 5,
       start |-> "2025-02-17", end |-> "2025-02-24", notes |-> ""],
      [name |-> "Production Rollout", duration_bd |-> 10,
       start |-> "2025-02-24", end |-> "2025-03-10", notes |-> ""]>>

TimelineOf(items, total, completion, plan) ==
    [start_date |-> "2025-01-06", total_business_days |-> total,
     projected_completion |-> completion, staff_count |-> 1,
     staffing_plan_md |-> plan, holiday_region |-> "None", items |-> items]

StaffingPlans == {"", "Two engineers for nine weeks"}

GateTimelines ==
    {TimelineOf(DefaultTimelineItems, 45, Some("2025-03-10"), plan) :
         plan \in StaffingPlans}
    \cup {TimelineOf(<<>>, 0, None, plan) : plan \in StaffingPlans}

\* deps_selected, in the order of dep_defs.
GateDeps ==
    {<<>>,
     default_deps,
     <<[name |-> "Network Infrastructure", details |-> ""],
       [name |-> "Network Controllers", details |-> ""],
       [name |-> "Revision Control system", details |-> "GitHub"]>>,
     <<[name |-> "Network Infrastructure", details |-> ""],
       [name |-> "Revision Control system", details |-> "GitLab"]>>,
     <<[name |-> "Revision Control system", details |-> "GitHub"]>>}

GateInputs ==
    [role_choice : {SENTINEL_SELECT, "I manage technical projects or teams."},
     role_other : {""},
     title : {default_title, "WAN automation", ""},
     description : {default_desc},
     orch_choice : {ORCH_SENTINEL, "No", "Yes - provide details"},
     orch_details : {""},
     users : {<<>>, <<"IT">>},
     exec : {<<>>, <<"Custom Python scripts">>},
     deps : GateDeps,
     timeline : GateTimelines]

\* The fields of the widget values in which a and b differ.
Differing(a, b) == {k \in DOMAIN a : a[k] # b[k]}

GateInit ==
    /\ gate_in \in {Some(w) : w \in GateInputs}
    /\ gate_out = None
    /\ gate_pc = "inputs"
    /\ SessIdle
    /\ CoreIdle /\ RowsIdle /\ UcIdle

\* The script run.
GateRun ==
    /\ gate_pc = "inputs"
    /\ gate_out' = Some(GateOutcome(BuildPayload(gate_in[1]),
                                    gate_in[1].orch_choice))
    /\ gate_pc' = "done"
    /\ UNCHANGED <<gate_in, sessVars, coreVars, rowsVars, ucVars>>

\* The user changes one widget, which starts the next run.
GateInteract ==
    /\ gate_pc = "done"
    /\ \E w \in GateInputs :
           /\ Cardinality(Differing(w, gate_in[1])) = 1
           /\ gate_in' = Some(w)
    /\ gate_out' = None
    /\ gate_pc' = "inputs"
    /\ UNCHANGED <<sessVars, coreVars, rowsVars, ucVars>>

GateNext == GateRun \/ GateInteract

SpecGate == GateInit /\ [][GateNext]_vars

-----------------------------------------------------------------------------
(***************************************************************************)
(* st.session_state over several runs: the "Reset to defaults" button and  *)
(* the "Apply uploaded JSON" button in Overwrite mode.  The session state  *)
(* is a function from its keys to their values; a widget whose key is      *)
(* absent shows its default.  Of the fourteen selection lists of the five  *)
(* framework sections, one or two per section are followed: intended       *)
(* users, presentation authentication, intent development, state methods,  *)
(* collection methods and execution methods.                               *)
(***************************************************************************)
\* st.session_state.get(k, default)
Get(ss, k, default) == IF k \in DOMAIN ss THEN ss[k] ELSE default

\* for k in K: st.session_state.pop(k, None)
PopAll(ss, K) == [k \in DOMAIN ss \ K |-> ss[k]]

\* for k in K: st.session_state[k] = v
SetAll(ss, K, v) == [k \in DOMAIN ss \cup K |-> IF k \in K THEN v ELSE ss[k]]

\* st.session_state[k] = upd[k] for every key of upd
Updated(ss, upd) == upd @@ ss

\* k.startswith(p)
StartsWith(k, p) == Len(k) >= Len(p) /\ SubSeq(k, 1, Len(p)) = p
StartsWithAny(k, P) == \E p \in P : StartsWith(k, p)

\* The tuple prefixes of the Reset and the Overwrite code.
ClearedPrefixes ==
    {"pres_", "intent_", "obs_", "orch_", "collector_", "collection_tool_",
     "collection_tools_", "exec_", "my_role_", "dep_", "_tl_", "_timeline_",
     "obs_tool_", "obs_state_", "collector_method_", "collector_auth_",
     "collector_handle_", "collector_norm_"}

\* The prefixes of the "Force-uncheck" loop.
CheckboxPrefixes ==
    {"pres_user_", "pres_interact_", "pres_tool_", "pres_auth_",
     "intent_dev_", "intent_prov_", "obs_state_", "obs_tool_",
     "collector_method_", "collector_auth_", "collector_handle_",
     "collector_norm_", "collection_tool_", "collection_tools_"}

CustomEnableKeys ==
    {"pres_user_custom_enable", "pres_interact_custom_enable",
     "pres_tool_custom_enable", "pres_auth_other_enable",
     "intent_dev_custom_enable", "intent_prov_custom_enable",
     "obs_tool_other_enable", "collector_methods_other_enable",
     "collector_auth_other_enable", "collector_handling_other_enable",
     "collector_norm_other_enable", "collection_tools_other_enable"}

ClearedKeys ==
    {"automation_title", "automation_description", "expected_use",
     "out_of_scope", "timeline_staff_count", "timeline_staffing_plan",
     "timeline_holiday_region", "timeline_start_date", "collector_devices",
     "collector_metrics", "collector_cadence", "orch_choice",
     "orch_details_text", "obs_go_no_go", "obs_add_logic_choice",
     "obs_add_logic_text"}

\* The three loops Reset and Overwrite begin with.
ClearWizardKeys(ss) ==
    LET popped == PopAll(ss, {k \in DOMAIN ss :
                                  StartsWithAny(k, ClearedPrefixes)})
        unchecked == SetAll(popped,
                            {k \in DOMAIN popped :
                                 StartsWithAny(k, CheckboxPrefixes)}, FALSE)
    IN  SetAll(unchecked, CustomEnableKeys, FALSE)

MyRoleSentinels ==
    ("my_role_who" :> SENTINEL_SELECT) @@ ("my_role_skills" :> SENTINEL_SELECT)
        @@ ("my_role_dev" :> SENTINEL_SELECT)
MyRoleOtherKeys ==
    {"my_role_who_other", "my_role_skills_other", "my_role_dev_other"}

\* The handler of the "Reset to defaults" button.
ResetToDefaults(ss) ==
    LET cleared == PopAll(ClearWizardKeys(ss), ClearedKeys)
        deps == Updated(cleared,
                    ("dep_network_infra" :> TRUE)
                        @@ ("dep_revision_control" :> TRUE)
                        @@ ("dep_revision_control_details" :> "GitHub"))
        role == PopAll(Updated(deps, MyRoleSentinels), MyRoleOtherKeys)
        ini == Updated(role,
                   ("automation_title" :> default_title)
                       @@ ("automation_description" :> default_desc)
                       @@ ("expected_use" :>
                               "This automation will be used whenever this task needs to be executed.")
                       @@ ("out_of_scope" :> ""))
    IN  Updated(ini, ("orch_choice" :> ORCH_SENTINEL)
                         @@ ("orch_details_text" :> ""))

\* The "Overwrite" block of the "Apply uploaded JSON" handler.
Overwrite(ss) ==
    LET orch == Updated(ClearWizardKeys(ss),
                    ("orch_choice" :> ORCH_SENTINEL)
                        @@ ("orch_details_text" :> ""))
        role == PopAll(Updated(orch, MyRoleSentinels), MyRoleOtherKeys)
    IN  PopAll(role, ClearedKeys)

\* ---- the selection widgets ----

user_opts ==
    <<"Network Engineers", "IT", "Operations", "Help Desk",
      "Other IT Organizations", "Any User", "Authorized Users">>

auth_opts_pres ==
    <<"No Authentication (suitable only for demos and very specific use cases)",
      "Repository authorization/sharing",
      "built in Authentication via Username/Password or TOKEN",
      "Custom Authentication to external system (AD, SSH Keys, OAUTH2)">>

intent_dev_opts ==
    <<"Templates", "Policies", "Service Profiles",
      "Model-driven (data models)", "Declarative (YAML/JSON)", "Forms/GUI",
      "Domain-specific language (DSL)", "GitOps workflow (PRs/Reviews)",
      "API-driven", "Import from Source of Truth (CMDB/IPAM/Inventory/Git)">>

state_methods_opts == <<"Manual", "Purpose-built Python Script", "API call">>

collect_method_opts ==
    <<"SNMP", "CLI/SSH", "NETCONF", "gNMI", "REST API", "Webhooks", "Syslog",
      "Streaming Telemetry">>

exec_opts ==
    <<"Automating CLI interaction with Python automation frameworks (Netmiko, Napalm, Nornir, PyATS)",
      "Automating execution with a tool like Ansible",
      "Custom Python scripts",
      "Via manufacturer management application (Cisco DNA Center, Arista CVP)">>

\* key=f"{prefix}{opt}" for every option
PrefixedKeys(prefix, opts) == [i \in DOMAIN opts |-> prefix \o opts[i]]

\* key=f"exec_{i}", i counting from 0
exec_keys == <<"exec_0", "exec_1", "exec_2", "exec_3">>

\* [k for k, v in checks.items() if v], checks[opt] = st.checkbox(opt, key)
RECURSIVE CheckedFrom(_, _, _, _)
CheckedFrom(ss, keys, opts, i) ==
    IF i > Len(opts) THEN <<>>
    ELSE (IF Get(ss, keys[i], FALSE) THEN <<opts[i]>> ELSE <<>>)
             \o CheckedFrom(ss, keys, opts, i + 1)

CheckedOptions(ss, keys, opts) == CheckedFrom(ss, keys, opts, 1)

\* The custom entry of a list: the text input is rendered, and read, only
\* while the enable checkbox is checked.
CustomEntry(ss, enable, text) ==
    LET enabled == Get(ss, enable, FALSE)
        typed == IF enabled THEN Get(ss, text, "") ELSE ""
    IN  IF enabled /\ Strip(typed) # "" THEN <<Strip(typed)>> ELSE <<>>

\* The selection lists the sections build from the session.
selected_users(ss) ==
    CheckedOptions(ss, PrefixedKeys("pres_user_", user_opts), user_opts)
        \o CustomEntry(ss, "pres_user_custom_enable", "pres_user_custom")

selected_auth_pres(ss) ==
    CheckedOptions(ss, PrefixedKeys("pres_auth_", auth_opts_pres),
                   auth_opts_pres)
        \o CustomEntry(ss, "pres_auth_other_enable", "pres_auth_other_text")

selected_intent_devs(ss) ==
    CheckedOptions(ss, PrefixedKeys("intent_dev_", intent_dev_opts),
                   intent_dev_opts)
        \o CustomEntry(ss, "intent_dev_custom_enable", "intent_dev_custom")

selected_state_methods(ss) ==
    CheckedOptions(ss, PrefixedKeys("obs_state_", state_methods_opts),
                   state_methods_opts)

selected_collect_methods(ss) ==
    CheckedOptions(ss, PrefixedKeys("collector_method_", collect_method_opts),
                   collect_method_opts)
        \o CustomEntry(ss, "collector_methods_other_enable",
                       "collector_methods_other")

selected_exec(ss) ==
    CheckedOptions(ss, exec_keys, exec_opts)
        \o CustomEntry(ss, "exec_custom_enable", "exec_custom_text")

\* The "selections" of the payload a run builds from the session.
Selections(ss) ==
    [presentation |-> [users |-> selected_users(ss),
                       auth |-> selected_auth_pres(ss)],
     intent |-> [development |-> selected_intent_devs(ss)],
     observability |-> [methods |-> selected_state_methods(ss)],
     collector |-> [methods |-> selected_collect_methods(ss)],
     executor |-> [methods |-> selected_exec(ss)]]

\* ---- "Apply uploaded JSON" ----

\* for u in items: st.session_state[f"{prefix}{u}"] = True
ImportAllAsChecked(ss, prefix, items) ==
    SetAll(ss, {prefix \o items[i] : i \in DOMAIN items}, TRUE)

\* for it in items: the checkbox when it is a known option, else the custom
\* field.
RECURSIVE ImportKnownOrOther(_, _, _, _, _, _)
ImportKnownOrOther(ss, prefix, known, enable, text, items) ==
    IF items = <<>> THEN ss
    ELSE ImportKnownOrOther(
             IF Head(items) \in known
             THEN Updated(ss, (prefix \o Head(items)) :> TRUE)
             ELSE Updated(ss, (enable :> TRUE) @@ (text :> Head(items))),
             prefix, known, enable, text, Tail(items))

\* The intent lists: known options are checked, the others are joined into
\* the custom field.
ImportJoiningUnknown(ss, prefix, known, enable, text, items) ==
    LET knowns == SelectSeq(items, LAMBDA v : v \in known)
        unknown == SelectSeq(items, LAMBDA v : v \notin known)
        checked == ImportAllAsChecked(ss, prefix, knowns)
    IN  IF unknown # <<>>
        THEN Updated(checked, (enable :> TRUE)
                                  @@ (text :> StrJoin(", ", unknown)))
        ELSE checked

known_auth ==
    {"No Authentication (suitable only for demos and very specific use cases)",
     "Repository authorization/sharing",
     "Built-in Authentication via Username/Password or TOKEN",
     "Custom Authentication to external system (AD, SSH Keys, OAUTH2)"}

known_dev == {intent_dev_opts[i] : i \in DOMAIN intent_dev_opts}

known_collect_methods ==
    {collect_method_opts[i] : i \in DOMAIN collect_method_opts}

\* The handler of "Apply uploaded JSON" in Overwrite mode, for the
\* selections data of an uploaded payload.  No part of the handler reads
\* data["executor"].
ApplyUploadedJson(ss, data) ==
    LET cleared == Overwrite(ss)
        users == ImportAllAsChecked(cleared, "pres_user_",
                                    data.presentation.users)
        auth == ImportKnownOrOther(users, "pres_auth_", known_auth,
                                   "pres_auth_other_enable",
                                   "pres_auth_other_text",
                                   data.presentation.auth)
        intent == ImportJoiningUnknown(auth, "intent_dev_", known_dev,
                                       "intent_dev_custom_enable",
                                       "intent_dev_custom",
                                       data.intent.development)
        obs == ImportAllAsChecked(intent, "obs_state_",
                                  data.observability.methods)
    IN  ImportKnownOrOther(obs, "collector_method_", known_collect_methods,
                           "collector_methods_other_enable",
                           "collector_methods_other", data.collector.methods)

\* ---- SpecImport ----

\* The checkboxes the user toggles and the custom fields the user types in.
ImpCheckboxKeys ==
    {"pres_user_IT", "pres_user_custom_enable",
     "pres_auth_built in Authentication via Username/Password or TOKEN",
     "intent_dev_Templates", "obs_state_Manual", "collector_method_SNMP",
     "collector_methods_other_enable", "exec_0"}

ImpTextInputs ==
    {[enable |-> "pres_user_custom_enable", text |-> "pres_user_custom",
      typed |-> "Auditors"],
     [enable |-> "collector_methods_other_enable",
      text |-> "collector_methods_other", typed |-> "gRPC"]}

\* Some selection list of the payload is non-empty, which opens the sidebar
\* export gate.
SomethingSelected(sel) ==
    \E s \in DOMAIN sel : \E l \in DOMAIN sel[s] : sel[s][l] # <<>>

ImpInit ==
    /\ session = <<>>
    /\ sess_exported = None
    /\ sess_pc = "edit"
    /\ GateIdle
    /\ CoreIdle /\ RowsIdle /\ UcIdle

\* The user toggles a checkbox.
ImpToggle ==
    /\ sess_pc = "edit"
    /\ \E k \in ImpCheckboxKeys :
           session' = Updated(session, k :> ~Get(session, k, FALSE))
    /\ UNCHANGED <<sess_exported, sess_pc, gateVars, coreVars, rowsVars,
                   ucVars>>

\* The user types into a custom field that is shown.
ImpType ==
    /\ sess_pc = "edit"
    /\ \E t \in ImpTextInputs :
           /\ Get(session, t.enable, FALSE)
           /\ session' = Updated(session, t.text :> t.typed)
    /\ UNCHANGED <<sess_exported, sess_pc, gateVars, coreVars, rowsVars,
                   ucVars>>

\* The user downloads the ZIP: the exported JSON holds the run's payload.
ImpExport ==
    /\ sess_pc = "edit"
    /\ SomethingSelected(Selections(session))
    /\ sess_exported' = Some(Selections(session))
    /\ sess_pc' = "exported"
    /\ UNCHANGED <<session, gateVars, coreVars, rowsVars, ucVars>>

\* The user uploads that JSON and presses "Apply uploaded JSON" with
\* "Overwrite" chosen.
ImpApply ==
    /\ sess_pc = "exported"
    /\ session' = ApplyUploadedJson(session, sess_exported[1])
    /\ sess_pc' = "applied"
    /\ UNCHANGED <<sess_exported, gateVars, coreVars, rowsVars, ucVars>>

ImpNext == ImpToggle \/ ImpType \/ ImpExport \/ ImpApply

SpecImport == ImpInit /\ [][ImpNext]_vars

\* ---- SpecReset ----

dep_defs ==
    <<[key |-> "network_infra", label |-> "Network Infrastructure",
       default |-> TRUE, details |-> FALSE],
      [key |-> "network_controllers", label |-> "Network Controllers",
       default |-> FALSE, details |-> TRUE],
      [key |-> "revision_control", label |-> "Revision Control system",
       default |-> TRUE, details |-> TRUE],
      [key |-> "itsm", label |-> "ITSM/Change Management System",
       default |-> FALSE, details |-> TRUE],
      [key |-> "authn", label |-> "Authentication System",
       default |-> FALSE, details |-> TRUE],
      [key |-> "ipams", label |-> "IPAMS Systems",
       default |-> FALSE, details |-> TRUE],
      [key |-> "inventory", label |-> "Inventory Systems",
       default |-> FALSE, details |-> TRUE],
      [key |-> "design_intent", label |-> "Design Data/Intent Systems",
       default |-> FALSE, details |-> TRUE],
      [key |-> "observability", label |-> "Observability System",
       default |-> FALSE, details |-> TRUE],
      [key |-> "vendor_mgmt", label |-> "Vendor Tool/Management System",
       default |-> FALSE, details |-> TRUE]>>

\* deps_selected of the Dependencies section.
RECURSIVE DepsSelectedFrom(_, _)
DepsSelectedFrom(ss, i) ==
    IF i > Len(dep_defs) THEN <<>>
    ELSE LET d == dep_defs[i]
             checked == Get(ss, "dep_" \o d.key, d.default)
             default_detail == IF d.key = "revision_control" THEN "GitHub"
                               ELSE ""
             detail_text == IF checked /\ d.details
                            THEN Get(ss, "dep_" \o d.key \o "_details",
                                     default_detail)
                            ELSE ""
         IN  (IF checked
              THEN <<[name |-> d.label, details |-> Strip(detail_text)]>>
              ELSE <<>>) \o DepsSelectedFrom(ss, i + 1)

deps_selected(ss) == DepsSelectedFrom(ss, 1)

\* The milestone rows a run leaves in the session: the list the session
\* holds, or the default rows when it holds none, with the first row's name
\* as its text input returns it.
MilestoneRowsOf(ss) ==
    LET rows == Get(ss, "timeline_milestones", DefaultMilestones)
    IN  [i \in DOMAIN rows |->
            IF i = 1
            THEN [rows[i] EXCEPT !.name = Get(ss, "_tl_name_0", rows[i].name)]
            ELSE rows[i]]

\* What the widgets of a run return under the session ss; the payload of the
\* run is built from these values and the date of the run.
RunInputs(ss) ==
    [role_choice |-> Get(ss, "my_role_who", SENTINEL_SELECT),
     title |-> Get(ss, "automation_title", default_title),
     description |-> Get(ss, "automation_description", default_desc),
     orch_choice |-> Get(ss, "orch_choice", ORCH_SENTINEL),
     selections |-> Selections(ss),
     deps |-> deps_selected(ss),
     staffing_plan |-> Get(ss, "_timeline_staffing_plan",
                           Get(ss, "timeline_staffing_plan", "")),
     milestones |-> MilestoneRowsOf(ss)]

\* What one interaction of the user, and the run it starts, write to the
\* session.
RstEdits(ss) ==
    {"pres_user_IT" :> ~Get(ss, "pres_user_IT", FALSE),
     "my_role_who" :> "I manage technical projects or teams.",
     "automation_title" :> "WAN automation",
     "orch_choice" :> "No",
     "dep_network_infra" :> ~Get(ss, "dep_network_infra", TRUE),
     "dep_network_controllers" :> ~Get(ss, "dep_network_controllers", FALSE),
     ("_timeline_staffing_plan" :> "Two engineers for nine weeks")
         @@ ("timeline_staffing_plan" :> "Two engineers for nine weeks"),
     ("_tl_name_0" :> "Cutover")
         @@ ("timeline_milestones" :>
                 [MilestoneRowsOf(ss) EXCEPT ![1].name = "Cutover"])}

RstInit ==
    /\ session = <<>>
    /\ sess_exported = None
    /\ sess_pc = "edit"
    /\ GateIdle
    /\ CoreIdle /\ RowsIdle /\ UcIdle

RstEdit ==
    /\ sess_pc = "edit"
    /\ \E upd \in RstEdits(session) : session' = Updated(session, upd)
    /\ UNCHANGED <<sess_exported, sess_pc, gateVars, coreVars, rowsVars,
                   ucVars>>

\* The user presses "Reset to defaults".
RstPress ==
    /\ sess_pc = "edit"
    /\ session' = ResetToDefaults(session)
    /\ sess_pc' = "reset"
    /\ UNCHANGED <<sess_exported, gateVars, coreVars, rowsVars, ucVars>>

RstNext == RstEdit \/ RstPress

SpecReset == RstInit /\ [][RstNext]_vars

-----------------------------------------------------------------------------
(* Notions the properties are stated in.                                   *)

HolidaysOf(hs) == IF hs = None THEN {} ELSE hs[1]

\* A business day: Monday to Friday and not a holiday.
BusinessDay(x, H) == Weekday(x) \notin {5, 6} /\ x \notin H

\* The number of business days in the interval (a, b].
BusinessDaysIn(a, b, H) == Cardinality({x \in (a + 1) .. b : BusinessDay(x, H)})

\* A string of white space only (the empty string included).
IsBlank(s) == \A i \in 1 .. Len(s) : SubSeq(s, i, i) \in {" ", "\t", "\n"}

\* t is s without its leading and trailing white space.
IsTrimOf(t, s) ==
    \E i \in 1 .. Len(s) + 1, j \in 0 .. Len(s) :
        /\ t = SubSeq(s, i, j)
        /\ IsBlank(SubSeq(s, 1, i - 1))
        /\ IsBlank(SubSeq(s, j + 1, Len(s)))
        /\ \/ t = ""
           \/ ~IsBlank(SubSeq(t, 1, 1)) /\ ~IsBlank(SubSeq(t, Len(t), Len(t)))

\* The rows the scheduler drops: blank name and non-positive duration.
Dropped(r) == IsBlank(r.name) /\ r.duration <= 0
Survivors(rows) == SelectSeq(rows, LAMBDA r : ~Dropped(r))

\* The rows the for loop has been through.
Processed == SubSeq(timeline_milestones, 1, row_i - 1)

RECURSIVE SumClamped(_)
SumClamped(rows) ==
    IF rows = <<>> THEN 0
    ELSE (IF Head(rows).duration > 0 THEN Head(rows).duration ELSE 0)
         + SumClamped(Tail(rows))

Returned == abd_pc = "returned"
Done == pc = "done"

-----------------------------------------------------------------------------
(* Properties.                                                             *)

\* C1: for n >= 1, _add_business_days(d, n, H) returns the n-th business day
\* strictly after d: the result is a weekday not in H, it is later than d,
\* and exactly n business days lie in (d, result].
C1_NthBusinessDay ==
    (Returned /\ abd_n >= 1) =>
        LET H == HolidaysOf(abd_holiday_set)
        IN  /\ BusinessDay(abd_cur, H)
            /\ abd_cur > abd_d
            /\ BusinessDaysIn(abd_d, abd_cur, H) = abd_n
            /\ _add_business_days(abd_d, abd_n, abd_holiday_set) = abd_cur

\* Three business days from Friday 3 Jan 2025 with Monday 6 Jan a holiday
\* end on Thursday 9 Jan.
C1_Witness ==
    /\ Returned
    /\ abd_d = Date(2025, 1, 3)
    /\ abd_n = 3
    /\ abd_holiday_set = Some({Date(2025, 1, 6)})
    /\ abd_cur = Date(2025, 1, 9)

\* C2: chaining invariant: the first scheduled item starts on the project
\* start date and every later item starts on the end date of the item
\* before it, in the schedule and in the exported items.
C2_Chaining ==
    /\ schedule # <<>> => schedule[1].start = start_date
    /\ \A i \in 2 .. Len(schedule) : schedule[i].start = schedule[i - 1].end
    /\ Done =>
          LET items == timeline[1].items
          IN  /\ items # <<>> => items[1].start = timeline[1].start_date
              /\ \A i \in 2 .. Len(items) : items[i].start = items[i - 1].end

\* A finished schedule of three items whose dates move forward.
C2_Witness ==
    /\ Done
    /\ Len(schedule) = 3
    /\ schedule[1].end > schedule[1].start
    /\ schedule[2].end > schedule[2].start
    /\ schedule[3].start = schedule[2].end

\* C3: filtering and order: the scheduled items are exactly the rows, in
\* input order, that are not both blank-named and of duration <= 0; no other
\* row is dropped or reordered.
C3_FilterAndOrder ==
    LET kept == Survivors(Processed)
    IN  /\ Len(schedule) = Len(kept)
        /\ \A i \in 1 .. Len(schedule) :
              /\ schedule[i].duration_bd = kept[i].duration
              /\ schedule[i].notes = kept[i].notes
              /\ ~IsBlank(kept[i].name) => IsTrimOf(schedule[i].name, kept[i].name)

\* The blank row of duration 0 is dropped, the blank row of duration 2 and
\* the named row of duration 0 are kept, in that order.
C3_Witness ==
    /\ Done
    /\ timeline_milestones =
          <<[name |-> "", duration |-> 0, notes |-> ""],
            [name |-> "  ", duration |-> 2, notes |-> "tbc"],
            [name |-> " Review ", duration |-> 0, notes |-> "gate"]>>
    /\ Len(schedule) = 2
    /\ schedule[1].duration_bd = 2
    /\ schedule[2].name = "Review"

\* C4: total_business_days is the sum of max(0, duration) over the surviving
\* rows: a function of the rows alone, whatever the start date and the
\* holiday set.
C4_TotalIsClampedSum ==
    /\ total_bd = SumClamped(Survivors(Processed))
    /\ Done => timeline[1].total_business_days =
                  SumClamped(Survivors(timeline_milestones))

\* A run over a weekend and a holiday whose total stays the raw sum 5 + 2.
C4_Witness ==
    /\ Done
    /\ Date(2025, 1, 7) \in holiday_set
    /\ \E i \in 1 .. Len(schedule) : schedule[i].duration_bd < 0
    /\ timeline[1].total_business_days = 7
    /\ cursor - start_date > 9

\* C5: zero-duration identity: _add_business_days(d, 0, H) returns d itself,
\* also when d is a Saturday, a Sunday or a holiday.
C5_ZeroIdentity ==
    (Returned /\ abd_n = 0) =>
        /\ abd_cur = abd_d
        /\ _add_business_days(abd_d, 0, abd_holiday_set) = abd_d

\* d is Saturday 4 Jan 2025 and a holiday, and is returned as it is.
C5_Witness ==
    /\ Returned
    /\ abd_n = 0
    /\ abd_d = Date(2025, 1, 4)
    /\ Weekday(abd_d) = 5
    /\ abd_d \in HolidaysOf(abd_holiday_set)
    /\ abd_cur = abd_d

\* C6: weekend skip: without holidays, one business day from a Friday, a
\* Saturday or a Sunday ends on the Monday that follows.
C6_WeekendSkip ==
    (/\ Returned
     /\ abd_n = 1
     /\ HolidaysOf(abd_holiday_set) = {}
     /\ Weekday(abd_d) \in {4, 5, 6}) =>
        /\ Weekday(abd_cur) = 0
        /\ abd_cur = abd_d + (7 - Weekday(abd_d))

\* From Friday 3 Jan 2025 to Monday 6 Jan 2025.
C6_Witness ==
    /\ Returned
    /\ abd_n = 1
    /\ abd_holiday_set = Some({})
    /\ abd_d = Date(2025, 1, 3)
    /\ Weekday(abd_d) = 4
    /\ abd_cur = Date(2025, 1, 6)

\* C7: holiday skip: from a Monday whose Tuesday is the only holiday, one
\* business day ends on Wednesday; and throughout the loop the days counted
\* toward n are exactly the non-holiday weekdays passed, so a holiday is
\* never counted and never returned when n >= 1.
C7_HolidaySkip ==
    LET H == HolidaysOf(abd_holiday_set)
    IN  /\ (/\ Returned
            /\ abd_n = 1
            /\ Weekday(abd_d) = 0
            /\ H = {abd_d + 1}) => abd_cur = abd_d + 2
        /\ (abd_pc \in {"loop", "returned"} /\ abd_n >= 1) =>
              /\ abd_n - abd_days =
                    Cardinality({x \in (abd_d + 1) .. abd_cur :
                                    Weekday(x) < 5 /\ x \notin H})
              /\ Returned => abd_cur \notin H

\* Monday 6 Jan 2025, holiday Tuesday 7 Jan, result Wednesday 8 Jan.
C7_Witness ==
    /\ Returned
    /\ abd_n = 1
    /\ abd_d = Date(2025, 1, 6)
    /\ abd_holiday_set = Some({Date(2025, 1, 7)})
    /\ abd_cur = Date(2025, 1, 8)

\* C8: a kept row of duration <= 0 is zero-length: its end is its start, the
\* next item starts on the same date (the cursor stays), and it adds nothing
\* to total_business_days; no item ends before it starts.
C8_ZeroLength ==
    /\ \A i \in 1 .. Len(schedule) :
          /\ schedule[i].end >= schedule[i].start
          /\ schedule[i].duration_bd <= 0 =>
                /\ schedule[i].end = schedule[i].start
                /\ i < Len(schedule) => schedule[i + 1].start = schedule[i].start
                /\ i = Len(schedule) => cursor = schedule[i].start
    /\ total_bd =
          SumClamped(SelectSeq(Processed, LAMBDA r : r.duration > 0))

\* A named row of duration 0 and a named row of duration -2, each followed
\* on the same date by the next item.
C8_Witness ==
    /\ Done
    /\ Len(schedule) = 3
    /\ schedule[1].duration_bd = 0
    /\ schedule[2].duration_bd < 0
    /\ schedule[3].duration_bd > 0
    /\ schedule[3].start = start_date
    /\ total_bd = schedule[3].duration_bd

C10_Scenario ==
    (/\ Done
     /\ start_date = Date(2025, 1, 6)
     /\ holiday_set = {}
     /\ timeline_milestones =
           <<[name |-> "Planning", duration |-> 5, notes |-> ""],
             [name |-> "Design", duration |-> 10, notes |-> ""],
             [name |-> "Build", duration |-> 10, notes |-> ""]>>) =>
        /\ Weekday(start_date) = 0
        /\ timeline[1] =
              [start_date |-> <<2025, 1, 6>>,
               total_business_days |-> 25,
               projected_completion |-> <<2025, 2, 10>>,
               items |->
                  <<[name |-> "Planning", duration_bd |-> 5,
                     start |-> <<2025, 1, 6>>, end |-> <<2025, 1, 13>>,
                     notes |-> ""],
                    [name |-> "Design", duration_bd |-> 10,
                     start |-> <<2025, 1, 13>>, end |-> <<2025, 1, 27>>,
                     notes |-> ""],
                    [name |-> "Build", duration_bd |-> 10,
                     start |-> <<2025, 1, 27>>, end |-> <<2025, 2, 10>>,
                     notes |-> ""]>>]

\* The scenario's run, finished.
C10_Witness ==
    /\ Done
    /\ start_date = Date(2025, 1, 6)
    /\ holiday_set = {}
    /\ Len(timeline_milestones) = 3
    /\ timeline_milestones[1].name = "Planning"
    /\ timeline_milestones[2].name = "Design"
    /\ timeline_milestones[3].name = "Build"
    /\ cursor = Date(2025, 2, 10)

HolEnded == hol_pc \in {"returned", "raised"}

\* The cases in which no calendar can be had.
HolDegraded ==
    \/ holiday_region = "None"
    \/ ~hol_lib
    \/ holiday_region \notin
         {"United States", "Canada", "United Kingdom", "Germany", "India",
          "Australia"}
    \/ ~hol_provider_ok

\* C13: _build_holiday_set never raises, and it returns the empty set when
\* the region is "None", the library is missing, the region is not a
\* supported name or the calendar's construction fails; with that set a day
\* counts as a business day exactly when it is not a Saturday or Sunday.
C13_DegradesToEmpty ==
    HolEnded =>
        /\ hol_pc = "returned"
        /\ ~hol_result[1].raised
        /\ HolDegraded =>
              /\ hol_result[1].value = {}
              /\ \A d \in hol_calendar :
                    CountsAsBusinessDay(d, Some(hol_result[1].value))
                        <=> Weekday(d) \notin {5, 6}

\* The constructor raised for a supported region with the library present,
\* over a calendar that has holidays, and the call returned.
C13_Witness ==
    /\ hol_pc = "returned"
    /\ hol_lib
    /\ holiday_region = "Germany"
    /\ ~hol_provider_ok
    /\ hol_calendar # {}
    /\ hol_result[1].value = {}

\* The call returned a calendar of a supported region whose holidays fall
\* in every year around the requested ones.
HolServed ==
    /\ hol_pc = "returned"
    /\ hol_lib
    /\ hol_provider_ok
    /\ holiday_region \in
         {"United States", "Canada", "United Kingdom", "Germany", "India",
          "Australia"}
    /\ hol_calendar # {}

\* The years of the dates a holiday set holds.
YearsOf(H) == {Year(d) : d \in H}

\* C14 as stated: for every years_ahead >= 0 the years covered are exactly
\* start_year .. start_year + years_ahead.
C14_YearsAsStated ==
    HolServed =>
        YearsOf(hol_result[1].value)
            = {y \in YearsOf(hol_calendar) :
                  /\ hol_start_year <= y
                  /\ y <= hol_start_year + hol_years_ahead}

\* C14 amended: the years covered are exactly start_year .. start_year +
\* years_ahead for years_ahead >= 1, and start_year .. start_year + 1 for
\* years_ahead = 0; every holiday of the region in those years is in the set
\* and no other date is.
C14_YearsClamped ==
    HolServed =>
        LET last == IF hol_years_ahead = 0
                    THEN hol_start_year + 1
                    ELSE hol_start_year + hol_years_ahead
        IN  /\ YearsOf(hol_result[1].value)
                 = {y \in YearsOf(hol_calendar) :
                       hol_start_year <= y /\ y <= last}
            /\ \A d \in hol_calendar :
                  d \in hol_result[1].value
                      <=> (hol_start_year <= Year(d) /\ Year(d) <= last)
            /\ hol_result[1].value \subseteq hol_calendar

\* A call with years_ahead = 0 that returned the holidays of two years.
C14_Witness ==
    /\ HolServed
    /\ hol_years_ahead = 0
    /\ hol_start_year = 2025
    /\ YearsOf(hol_result[1].value) = {2025, 2026}

\* The public holidays of the selected region.
RegionHolidays == IF holiday_region = "None" THEN {} ELSE hol_calendar

\* C15: with the look-ahead the Build schedule code requests, for every
\* chain no positive-duration item ends on a public holiday of the region
\* and the days counted toward an item are business days of the region: the
\* item's duration is the number of days after its start, up to its end,
\* that are neither weekend days nor public holidays.
C15_HolidaysSkippedInLaterYears ==
    (Done /\ hol_pc = "returned") =>
        \A i \in 1 .. Len(schedule) :
            schedule[i].duration_bd > 0 =>
                /\ schedule[i].end \notin RegionHolidays
                /\ BusinessDaysIn(schedule[i].start, schedule[i].end,
                                  RegionHolidays) = schedule[i].duration_bd

ItemsGiven == IF util_items = None THEN <<>> ELSE util_items[1]
NonEmptyItems == SelectSeq(ItemsGiven, LAMBDA i : i # None /\ i[1] # "")

\* The concatenation of a sequence of strings.
RECURSIVE Flatten(_)
Flatten(parts) == IF parts = <<>> THEN "" ELSE Head(parts) \o Flatten(Tail(parts))

\* C17: join_human drops the empty and falsy items (None is the empty
\* list); it returns "TBD" when none remain, the item when one remains, and
\* otherwise the items in order, separated by ", " except the last two,
\* which " and " separates.
C17_JoinHuman ==
    util_joined # None =>
        LET k == NonEmptyItems
            n == Len(k)
        IN  /\ n = 0 => util_joined[1] = "TBD"
            /\ n = 1 => util_joined[1] = k[1][1]
            /\ n >= 2 =>
                  util_joined[1] =
                      Flatten([i \in 1 .. (2 * n - 1) |->
                                 IF i % 2 = 1 THEN k[(i + 1) \div 2][1]
                                 ELSE IF i = 2 * n - 2 THEN " and "
                                      ELSE ", "])

\* A list of three items with an empty one between two options.
C17_Witness ==
    /\ util_pc = "sentence"
    /\ util_items = Some(<<Some("CLI"), Some(""), Some("API")>>)
    /\ util_joined = Some("CLI and API")

\* "tbd" occurs in s, in any mix of cases.
ContainsTbdAnyCase(s) ==
    \E i \in 1 .. (Len(s) - 2) :
        /\ SubSeq(s, i, i) \in {"t", "T"}
        /\ SubSeq(s, i + 1, i + 1) \in {"b", "B"}
        /\ SubSeq(s, i + 2, i + 2) \in {"d", "D"}

\* s without its leading and trailing whitespace.
TrimmedCore(s) ==
    LET idx == {i \in 1 .. Len(s) : ~IsBlank(SubSeq(s, i, i))}
    IN  IF idx = {} THEN ""
        ELSE SubSeq(s, CHOOSE i \in idx : \A j \in idx : i <= j,
                       CHOOSE i \in idx : \A j \in idx : i >= j)

\* a and b are the same up to the case of their letters.
SameIgnoringCase(a, b) ==
    /\ Len(a) = Len(b)
    /\ \A i \in 1 .. Len(a) :
          \/ SubSeq(a, i, i) = SubSeq(b, i, i)
          \/ \E j \in 1 .. Len(UpperLetters) :
                {SubSeq(a, i, i), SubSeq(b, i, i)}
                    = {SubSeq(UpperLetters, j, j), SubSeq(LowerLetters, j, j)}

\* s is, after trimming and up to case, one of the default placeholders.
IsPlaceholder(s) ==
    \E p \in default_placeholders : SameIgnoringCase(TrimmedCore(s), p)

\* is_meaningful and md_line were applied to util_text.
Checked == util_pc = "done"

\* C18: is_meaningful(text) is False exactly when text is None or empty, is
\* whitespace only, contains "tbd" in any case, or is, trimmed and
\* lower-cased, one of the two default placeholder sentences.
C18_IsMeaningful ==
    Checked =>
        (~util_meaningful <=>
            \/ util_text = None
            \/ util_text[1] = ""
            \/ IsBlank(util_text[1])
            \/ ContainsTbdAnyCase(util_text[1])
            \/ IsPlaceholder(util_text[1]))

\* A placeholder sentence written with capitals and surrounding whitespace
\* was found not meaningful.
C18_Witness ==
    /\ Checked
    /\ util_text
         = Some("  No additional gating logic beyond the defined Go/No-Go criteria.\n")
    /\ ~util_meaningful

\* C19: md_line(text) is "- " followed by text for a non-empty text, and
\* the empty string for an empty text or None.
C19_MdLine ==
    Checked =>
        IF util_text = None \/ util_text[1] = ""
        THEN util_md = Some("")
        ELSE /\ Len(util_md[1]) = Len(util_text[1]) + 2
             /\ SubSeq(util_md[1], 1, 2) = "- "
             /\ SubSeq(util_md[1], 3, Len(util_md[1])) = util_text[1]

\* A text with surrounding blanks was rendered as a bullet, unchanged.
C19_Witness ==
    /\ Checked
    /\ util_text = Some(" ok ")
    /\ util_md = Some("-  ok ")

\* The text checked is a narrative sentence built from a selection list.
SentenceChecked == Checked /\ util_joined # None

\* The list holds an option that is not empty; an option containing "tbd".
HasOption == NonEmptyItems # <<>>
OptionHasTbd ==
    \E i \in 1 .. Len(NonEmptyItems) : ContainsTbdAnyCase(NonEmptyItems[i][1])

\* C20 as stated: the sentence is meaningful, and rendered as a bullet,
\* when the list holds at least one non-empty option, and not meaningful
\* when it holds none.
C20_SentenceAsStated ==
    SentenceChecked =>
        /\ HasOption => (util_meaningful /\ SubSeq(util_md[1], 1, 2) = "- ")
        /\ ~HasOption => ~util_meaningful

\* C20 amended: the sentence is meaningful exactly when the list holds at
\* least one non-empty option and no option contains "tbd" in any case; a
\* list without options gives "<prefix>TBD."; md_line of the sentence is the
\* sentence behind "- " in every case.
C20_SentenceMeaningful ==
    SentenceChecked =>
        /\ util_meaningful <=> (HasOption /\ ~OptionHasTbd)
        /\ ~HasOption =>
              \E prefix \in {"This solution targets ",
                             "Users will interact with the solution via ",
                             "The presentation layer will be built using ",
                             "Presentation authentication will use "} :
                  util_text = Some(prefix \o "TBD.")
        /\ util_md = Some("- " \o util_text[1])

\* A list of two options, one of them the custom text "TBD", gave a
\* sentence that is not meaningful.
C20_Witness ==
    /\ SentenceChecked
    /\ util_items = Some(<<Some("CLI"), Some("TBD")>>)
    /\ util_text = Some("Users will interact with the solution via CLI and TBD.")
    /\ ~util_meaningful

\* C24: additivity of the chain: when the schedule is not empty, the
\* projected completion, which is the end of the last item and the final
\* cursor, is the date _add_business_days gives for the start date and the
\* total of business days: the total-th business day after the start date
\* (the start date itself for a total of 0).
C24_ChainAdditive ==
    (Done /\ schedule # <<>>) =>
        /\ cursor = schedule[Len(schedule)].end
        /\ timeline[1].projected_completion = Strftime(cursor)
        /\ cursor = _add_business_days(start_date, total_bd, Some(holiday_set))
        /\ cursor >= start_date
        /\ BusinessDaysIn(start_date, cursor, holiday_set) = total_bd
        /\ total_bd > 0 => BusinessDay(cursor, holiday_set)
        /\ total_bd = 0 => cursor = start_date

\* Three positive-duration items from a start date before a holiday: the
\* completion is 17 business days after the start.
C24_Witness ==
    /\ Done
    /\ Len(schedule) = 3
    /\ \A i \in 1 .. 3 : schedule[i].duration_bd > 0
    /\ total_bd = 17
    /\ holiday_set = {Date(2025, 1, 7), Date(2025, 1, 20)}
    /\ start_date = Date(2025, 1, 4)

\* C25: every item has start <= end, with end after start exactly when its
\* duration is positive; a positive-duration item ends on a weekday that is
\* not a holiday; starts and ends do not decrease along the list; an item
\* that starts on a weekend day or a holiday has no positive-duration item
\* before it.
C25_ItemDatesOrdered ==
    /\ \A i \in 1 .. Len(schedule) :
          /\ schedule[i].start <= schedule[i].end
          /\ schedule[i].end > schedule[i].start <=> schedule[i].duration_bd > 0
          /\ schedule[i].duration_bd > 0 =>
                BusinessDay(schedule[i].end, holiday_set)
          /\ ~BusinessDay(schedule[i].start, holiday_set) =>
                \A j \in 1 .. (i - 1) : schedule[j].duration_bd <= 0
    /\ \A i \in 2 .. Len(schedule) :
          /\ schedule[i - 1].start <= schedule[i].start
          /\ schedule[i - 1].end <= schedule[i].end

\* A schedule from a Saturday start: a zero-length item on the Saturday,
\* then a positive one ending on a business day, then another zero-length
\* item on that business day.
C25_Witness ==
    /\ Done
    /\ start_date = Date(2025, 1, 4)
    /\ Len(schedule) = 3
    /\ schedule[1].duration_bd <= 0
    /\ schedule[2].duration_bd > 0
    /\ schedule[3].duration_bd <= 0
    /\ schedule[3].start = schedule[2].end
    /\ holiday_set # {}

\* The indices whose Delete checkbox was set in this run.
DeletedIdx == {rows_to_delete[k] : k \in 1 .. Len(rows_to_delete)}

\* C26: after a run, the stored milestone list is the list of the rows as
\* edited in this run without the rows at the indices whose Delete checkbox
\* was set: the other rows keep their order and their edited values.
C26_RowsDeleted ==
    rows_pc = "done" =>
        LET n == Len(rows_edited)
            D == DeletedIdx
        IN  /\ Len(rows_list) = n - Cardinality(D)
            /\ \A i \in 0 .. (n - 1) :
                  i \notin D =>
                      rows_list[i + 1 - Cardinality({d \in D : d < i})]
                          = rows_edited[i + 1]

\* Of three rows, the first and the last were deleted and the second, which
\* the user edited, is what remains.
C26_Witness ==
    /\ rows_pc = "done"
    /\ Len(rows_edited) = 3
    /\ rows_to_delete = <<0, 2>>
    /\ rows_list = <<[name |-> "Cutover", duration |-> 7, notes |-> "edited"]>>

\* C27: on the use-case page, once _ensure_state has run, the active index
\* is -1 exactly when there is no use case and otherwise is an index of the
\* list; "Delete current use case" removes the use case at the index that
\* was active and leaves the others in their order.
C27_ActiveIndexValid ==
    /\ uc_pc \in {"controls", "select", "edit", "end"} =>
          LET l == uc_list[1]
              i == uc_index[1]
          IN  /\ i = 0 - 1 <=> l = <<>>
              /\ l # <<>> => (0 <= i /\ i < Len(l))
    /\ (uc_pc = "select" /\ uc_button = "delete") =>
          LET old == uc_before[1].use_cases
              at == uc_before[1].index
              l == uc_list[1]
          IN  /\ Len(l) = Len(old) - 1
              /\ \A j \in 1 .. Len(l) :
                    l[j] = IF j <= at THEN old[j] ELSE old[j + 1]

\* The last of three use cases, the active one, was just deleted; the
\* first two remain, the first of them renamed earlier.
C27_Witness ==
    /\ uc_pc = "select"
    /\ uc_button = "delete"
    /\ Len(uc_before[1].use_cases) = 3
    /\ uc_before[1].index = 2
    /\ Len(uc_list[1]) = 2
    /\ uc_list[1][1].name = "Backup"
    /\ uc_index = Some(1)


\* ---- SpecGate ----

GateRan == gate_pc = "done"
GatePayload == BuildPayload(gate_in[1])
GateOut == gate_out[1]

\* The selected dependencies are exactly the default pair.
DefaultPairSelected ==
    LET deps == gate_in[1].deps
    IN  /\ Len(deps) = 2
        /\ \E i, j \in 1 .. 2 :
               /\ i # j
               /\ deps[i] = [name |-> "Network Infrastructure", details |-> ""]
               /\ deps[j] = [name |-> "Revision Control system",
                            details |-> "GitHub"]

\* Nothing but the dependencies could make the run detect content.
OnlyDependenciesTouched ==
    LET w == gate_in[1]
    IN  /\ w.role_choice = SENTINEL_SELECT
        /\ w.title \in {default_title, ""}
        /\ w.orch_choice = ORCH_SENTINEL
        /\ w.users = <<>> /\ w.exec = <<>>
        /\ w.timeline.staffing_plan_md = ""

DepsHeading == "## Dependencies & External Interfaces"
TimelineHeading == "## Staffing, Timeline, & Milestones"

SummaryHas(heading) ==
    GateOut.summary_md # None /\ Contains(heading, GateOut.summary_md[1])

\* C21: when the selected dependencies are exactly the default pair they do
\* not count as content (with nothing else touched the run detects none) and
\* neither the highlights nor the summary shows a Dependencies section; any
\* other non-empty selection is shown in both.
C21_DefaultDependenciesHidden ==
    GateRan =>
        /\ DefaultPairSelected =>
               /\ GateOut.dep_lines = <<>>
               /\ ~SummaryHas(DepsHeading)
               /\ OnlyDependenciesTouched => ~GateOut.any_content
        /\ (gate_in[1].deps # <<>> /\ ~DefaultPairSelected) =>
               /\ GateOut.any_content
               /\ Len(GateOut.dep_lines) = Len(gate_in[1].deps)
               /\ \A i \in DOMAIN gate_in[1].deps :
                      Contains(gate_in[1].deps[i].name, GateOut.dep_lines[i])
               /\ SummaryHas(DepsHeading)

\* A run with the default pair next to content of another section, whose
\* summary is built.
C21_Witness ==
    /\ GateRan /\ DefaultPairSelected
    /\ GateOut.summary_md # None
    /\ GateOut.dep_lines = <<>>

\* The timeline is at its defaults: the default milestone rows and no
\* staffing-plan text.
DefaultTimelineShown ==
    /\ [i \in DOMAIN gate_in[1].timeline.items |->
           [name |-> gate_in[1].timeline.items[i].name,
            duration |-> gate_in[1].timeline.items[i].duration_bd,
            notes |-> gate_in[1].timeline.items[i].notes]] = DefaultMilestones
    /\ gate_in[1].timeline.staffing_plan_md = ""

\* Nothing but the timeline could make the run detect content.
OnlyTimelineTouched ==
    LET w == gate_in[1]
    IN  /\ w.role_choice = SENTINEL_SELECT
        /\ w.title \in {default_title, ""}
        /\ w.orch_choice = ORCH_SENTINEL
        /\ w.users = <<>> /\ w.exec = <<>>
        /\ w.deps \in {<<>>, default_deps}

\* C22: while the timeline is at its defaults it does not count as content
\* and the markdown summary has no "Staffing, Timeline, & Milestones"
\* section, whatever the other sections contain.
C22_DefaultTimelineHidden ==
    (GateRan /\ DefaultTimelineShown) =>
        /\ OnlyTimelineTouched => ~GateOut.any_content
        /\ ~SummaryHas(TimelineHeading)

\* Every input that is not "-- Select one --" or empty in the orchestration
\* radio.
OrchestrationChosen == gate_in[1].orch_choice \notin {"", ORCH_SENTINEL}

\* C23: a run whose orchestration choice is not the sentinel ("No" included)
\* detects content and offers the ZIP download, whatever the other inputs.
C23_OrchestrationChoiceOpensExport ==
    (GateRan /\ OrchestrationChosen) =>
        GateOut.any_content /\ GateOut.download /\ ~GateOut.sidebar_reminder

\* Every input of the run is at its first-run default.
AllInputsDefault ==
    LET w == gate_in[1]
    IN  /\ w.role_choice = SENTINEL_SELECT
        /\ w.title = default_title /\ w.description = default_desc
        /\ w.orch_choice = ORCH_SENTINEL
        /\ w.users = <<>> /\ w.exec = <<>>
        /\ w.deps = default_deps
        /\ DefaultTimelineShown

\* The choice "No" with every other input at its default.
C23_Witness ==
    /\ GateRan
    /\ gate_in[1].orch_choice = "No"
    /\ gate_in[1].role_choice = SENTINEL_SELECT
    /\ gate_in[1].title = default_title
    /\ gate_in[1].users = <<>> /\ gate_in[1].exec = <<>>
    /\ gate_in[1].deps = default_deps
    /\ DefaultTimelineShown
    /\ GateOut.download

\* C30: a run that detects content offers the ZIP download in the sidebar,
\* and a run whose inputs are all at their defaults does not offer it.
C30_ContentOffersDownload ==
    GateRan =>
        /\ GateOut.any_content => GateOut.download
        /\ AllInputsDefault => ~GateOut.download

\* ---- SpecImport ----

\* C28: after a payload the wizard exported has been applied in Overwrite
\* mode, the next run builds the selection lists of the exported payload
\* for presentation, intent, observability, collector and executor.
C28_RoundTripRestoresSelections ==
    sess_pc = "applied" => Selections(session) = sess_exported[1]

\* ---- SpecReset ----

\* C29: after "Reset to defaults" the widgets of the next run return what
\* they return in a fresh session: no option selected, the sentinel role and
\* orchestration choices, the default initiative texts, the two default
\* dependencies, no staffing plan and the default milestone rows.
C29_ResetRestoresFirstRun ==
    sess_pc = "reset" => RunInputs(session) = RunInputs(<<>>)

=============================================================================
